---- MODULE Spec2Model ----
(***************************************************************************)
(* Transformation engine of the call-analytics pipeline                    *)
(* (src/transformations.py): conversion detection, upsell extraction,      *)
(* negation-aware sentiment analysis and the transform_call_record facade. *)
(*                                                                         *)
(* A transcript is a sequence of characters.  A character is a string:     *)
(* an ASCII character stands for itself, "U+0130" is LATIN CAPITAL LETTER  *)
(* I WITH DOT ABOVE and "U+0307" is COMBINING DOT ABOVE (str.lower() turns *)
(* the first into "i" followed by the second, so lower() can lengthen a    *)
(* string), and "U+00DF" is LATIN SMALL LETTER SHARP S (a lower-case       *)
(* letter without an upper-case letter of its own).                        *)
(***************************************************************************)
EXTENDS Integers, Sequences, FiniteSets, TLC

VARIABLES engine, call_data, conversion_result, upsell_result,
          sentiment_result, enriched_data

vars == <<engine, call_data, conversion_result, upsell_result,
          sentiment_result, enriched_data>>

(***************************************************************************)
(* Characters: the classes of Python's re and str over this alphabet.      *)
(***************************************************************************)
LowerLetters ==
  <<"a", "b", "c", "d", "e", "f", "g", "h", "i", "j", "k", "l", "m",
    "n", "o", "p", "q", "r", "s", "t", "u", "v", "w", "x", "y", "z">>

UpperLetters ==
  <<"A", "B", "C", "D", "E", "F", "G", "H", "I", "J", "K", "L", "M",
    "N", "O", "P", "Q", "R", "S", "T", "U", "V", "W", "X", "Y", "Z">>

DigitChars == <<"0", "1", "2", "3", "4", "5", "6", "7", "8", "9">>

Range(f) == {f[k] : k \in DOMAIN f}

LowerSet == Range(LowerLetters)

UpperSet == Range(UpperLetters)

DigitSet == Range(DigitChars)

SpaceSet == {" ", "\t", "\n"}

PunctSet == {",", ".", ":", "'", "$", "?", "!", "-"}

\* \w of a str pattern: alphanumerics and the underscore; U+0130 and
\* U+00DF are letters, the combining mark U+0307 is not.
WordSet ==
  LowerSet \cup UpperSet \cup DigitSet \cup {"_", "U+0130", "U+00DF"}

Alphabet == WordSet \cup SpaceSet \cup PunctSet \cup {"U+0307"}

IndexOf(seq, c) == CHOOSE k \in DOMAIN seq : seq[k] = c

\* str.lower() of one character (a sequence: U+0130 lowers to two).
LowerChar(c) ==
  IF c \in UpperSet THEN <<LowerLetters[IndexOf(UpperLetters, c)]>>
  ELSE IF c = "U+0130" THEN <<"i", "U+0307">>
  ELSE <<c>>

\* The upper-case form of the first character of a word that capitalize
\* is given: a keyword match, which begins with a letter a..z.
UpperChar(c) ==
  IF c \in LowerSet THEN UpperLetters[IndexOf(LowerLetters, c)] ELSE c

\* The smallest element of a non-empty set of integers.
Min(S) == CHOOSE x \in S : \A y \in S : x <= y

\* str.lower(): the lower-case forms of the characters of s, one after the
\* other.  Character i of s lands after Off(i) characters of the result.
lower(s) ==
  LET wide == {j \in DOMAIN s : Len(LowerChar(s[j])) = 2}
      Off(i) == i - 1 + Cardinality({j \in wide : j < i})
      Src(k) == CHOOSE i \in DOMAIN s :
                  /\ i >= k - Cardinality(wide) /\ i <= k
                  /\ Off(i) < k /\ k <= Off(i) + Len(LowerChar(s[i]))
  IN  IF wide = {} THEN [i \in DOMAIN s |-> LowerChar(s[i])[1]]
      ELSE [k \in 1..(Len(s) + Cardinality(wide)) |->
              LowerChar(s[Src(k)])[k - Off(Src(k))]]

\* The value of a decimal digit character.
DigitVal(c) == IndexOf(DigitChars, c) - 1

(***************************************************************************)
(* Regular expressions.  A pattern is a tree:                              *)
(*   Lit(s)        the characters of s, compared ignoring case             *)
(*   Cls(c)        \s ("s"), \d ("d"), \w ("w"), . ("any")                 *)
(*   WordB         \b                                                      *)
(*   Cat(rs)       the patterns of rs one after the other                  *)
(*   Alt(rs)       r1|r2|..., tried in this order                          *)
(*   Rep(r,lo,hi)  greedy repetition r{lo,hi}; hi = -1: no upper limit     *)
(*   LazyStar(r)   lazy repetition r*? of a character class                *)
(* Ends(r, s, i) lists the positions at which a match of r starting at     *)
(* position i of s can end, in the order the backtracking matcher of re    *)
(* tries them, so its head is the match re reports.  Positions are         *)
(* 1-based indices of the next character to read.                          *)
(***************************************************************************)
Lit(s) == [t |-> "lit", s |-> s]

Cls(c) == [t |-> "cls", c |-> c]

WordB == [t |-> "wordb"]

Cat(rs) == [t |-> "cat", rs |-> rs]

Alt(rs) == [t |-> "alt", rs |-> rs]

Rep(r, lo, hi) == [t |-> "rep", r |-> r, lo |-> lo, hi |-> hi]

Opt(r) == Rep(r, 0, 1)

Plus(r) == Rep(r, 1, -1)

Star(r) == Rep(r, 0, -1)

LazyStar(r) == [t |-> "lazy", r |-> r, lo |-> 0, hi |-> -1]

\* re.IGNORECASE: characters are compared by their lower-case form.
Fold(c) == LowerChar(c)

InClass(c, ch) ==
  CASE c = "s" -> ch \in SpaceSet
    [] c = "d" -> ch \in DigitSet
    [] c = "w" -> ch \in WordSet
    [] c = "any" -> ch # "\n"

IsWordAt(s, i) == i >= 1 /\ i <= Len(s) /\ s[i] \in WordSet

\* seqs[lo] \o ... \o seqs[hi]
RECURSIVE Flatten(_, _, _)
Flatten(seqs, lo, hi) ==
  IF lo > hi THEN <<>>
  ELSE IF lo = hi THEN seqs[lo]
  ELSE LET mid == (lo + hi) \div 2
       IN  Flatten(seqs, lo, mid) \o Flatten(seqs, mid + 1, hi)

\* The position after the run of characters of class c that starts at i.
RunEnd(c, s, i) ==
  CHOOSE j \in i..(Len(s) + 1) :
    /\ j = Len(s) + 1 \/ ~InClass(c, s[j])
    /\ \A k \in i..(j - 1) : InClass(c, s[k])

\* Greedy repetition of one character class: the longest run first, then
\* one character less at a time, down to r.lo characters.
ClassRep(r, s, i) ==
  LET run == RunEnd(r.r.c, s, i) - i
      top == IF r.hi # -1 /\ run > r.hi THEN r.hi ELSE run
  IN  IF top < r.lo THEN <<>>
      ELSE [k \in 1..(top - r.lo + 1) |-> i + top - k + 1]

\* Lazy repetition of one character class: no character first, then one
\* character more at a time, up to the whole run.
LazyClassRep(r, s, i) ==
  [k \in 1..(RunEnd(r.r.c, s, i) - i + 1) |-> i + k - 1]

RECURSIVE Ends(_, _, _), CatAt(_, _, _, _), RepAt(_, _, _, _)

Ends(r, s, i) ==
  CASE r.t = "lit" ->
         IF /\ i + Len(r.s) - 1 <= Len(s)
            /\ \A k \in 1..Len(r.s) : Fold(s[i + k - 1]) = Fold(r.s[k])
         THEN <<i + Len(r.s)>> ELSE <<>>
    [] r.t = "cls" ->
         IF i <= Len(s) /\ InClass(r.c, s[i]) THEN <<i + 1>> ELSE <<>>
    [] r.t = "wordb" ->
         IF IsWordAt(s, i - 1) # IsWordAt(s, i) THEN <<i>> ELSE <<>>
    [] r.t = "cat" -> CatAt(r.rs, 1, s, i)
    [] r.t = "alt" ->
         Flatten([k \in DOMAIN r.rs |-> Ends(r.rs[k], s, i)], 1, Len(r.rs))
    [] r.t = "rep" ->
         IF r.r.t = "cls" THEN ClassRep(r, s, i) ELSE RepAt(r, s, i, 0)
    [] r.t = "lazy" -> LazyClassRep(r, s, i)

\* The patterns rs[k], rs[k+1], ... matched one after the other from i: for
\* every end of rs[k], in order, the ends of the rest from there.
CatAt(rs, k, s, i) ==
  IF k > Len(rs) THEN <<i>>
  ELSE LET starts == Ends(rs[k], s, i)
       IN  Flatten([j \in DOMAIN starts |-> CatAt(rs, k + 1, s, starts[j])],
                   1, Len(starts))

\* n repetitions of r.r are behind; greedy: one more is tried first, and
\* stopping here comes last.  A repetition that matched nothing is not
\* followed by another.
RepAt(r, s, i, n) ==
  (IF r.hi = -1 \/ n < r.hi
     THEN LET ends == Ends(r.r, s, i)
          IN  Flatten([j \in DOMAIN ends |->
                         IF ends[j] > i THEN RepAt(r, s, ends[j], n + 1)
                         ELSE IF n + 1 >= r.lo THEN <<i>> ELSE <<>>],
                      1, Len(ends))
     ELSE <<>>)
  \o (IF n >= r.lo THEN <<i>> ELSE <<>>)

\* Whether r can match the empty string, and the lower-case forms of the
\* characters a non-empty match of r can start with: a match can begin only
\* at a character of First(r), unless r is nullable.
RECURSIVE Nullable(_), First(_)

Nullable(r) ==
  CASE r.t = "lit" -> r.s = <<>>
    [] r.t = "cls" -> FALSE
    [] r.t = "wordb" -> TRUE
    [] r.t = "cat" -> \A k \in DOMAIN r.rs : Nullable(r.rs[k])
    [] r.t = "alt" -> \E k \in DOMAIN r.rs : Nullable(r.rs[k])
    [] r.t = "rep" -> r.lo = 0 \/ Nullable(r.r)
    [] r.t = "lazy" -> TRUE

First(r) ==
  CASE r.t = "lit" -> IF r.s = <<>> THEN {} ELSE {Fold(r.s[1])}
    [] r.t = "cls" -> {Fold(ch) : ch \in {a \in Alphabet : InClass(r.c, a)}}
    [] r.t = "wordb" -> {}
    [] r.t = "cat" ->
         UNION {First(r.rs[k]) :
                  k \in {k \in DOMAIN r.rs :
                           \A j \in 1..(k - 1) : Nullable(r.rs[j])}}
    [] r.t = "alt" -> UNION {First(r.rs[k]) : k \in DOMAIN r.rs}
    [] r.t = "rep" -> First(r.r)
    [] r.t = "lazy" -> First(r.r)

\* The start positions (1-based) at which r matches in s.
MatchStarts(r, s) ==
  LET nullable == Nullable(r)
      first == First(r)
  IN  {i \in 1..(Len(s) + 1) :
         /\ nullable \/ (i <= Len(s) /\ Fold(s[i]) \in first)
         /\ Ends(r, s, i) # <<>>}

NoMatch == [found |-> FALSE]

\* The match that begins at position i (one of MatchStarts): the first in
\* backtracking order.  start and end are 0-based offsets, end exclusive, as
\* Match.start() and Match.end().
MatchAt(r, s, i) ==
  [found |-> TRUE, start |-> i - 1, end |-> Head(Ends(r, s, i)) - 1]

LeftmostMatch(r, s, starts) ==
  IF starts = {} THEN NoMatch ELSE MatchAt(r, s, Min(starts))

\* Pattern.search: the match at the leftmost start position that has one.
search(r, s) == LeftmostMatch(r, s, MatchStarts(r, s))

\* s[a:b] of Python for 0 <= a, b (a slice clips to the string).
Slice(s, a, b) ==
  LET hi == IF b > Len(s) THEN Len(s) ELSE b
  IN  IF a >= hi THEN <<>> ELSE SubSeq(s, a + 1, hi)

\* Match.group()
group(s, m) == Slice(s, m.start, m.end)

(***************************************************************************)
(* TransformationEngine.__init__: the patterns and keyword sets.           *)
(***************************************************************************)
conversion_phrases ==
  <<
    \* yes.*(?:book|appointment|schedule)
    Cat(<<Lit(<<"y", "e", "s">>), Star(Cls("any")), Alt(<<Lit(<<"b", "o", "o",
      "k">>), Lit(<<"a", "p", "p", "o", "i", "n", "t", "m", "e", "n", "t">>),
      Lit(<<"s", "c", "h", "e", "d", "u", "l", "e">>)>>)>>),
    \* sign\s+me\s+up
    Cat(<<Lit(<<"s", "i", "g", "n">>), Plus(Cls("s")), Lit(<<"m", "e">>),
      Plus(Cls("s")), Lit(<<"u", "p">>)>>),
    \* (?:let's|lets)\s+(?:proceed|move\s+forward)
    Cat(<<Alt(<<Lit(<<"l", "e", "t", "'", "s">>), Lit(<<"l", "e", "t",
      "s">>)>>), Plus(Cls("s")), Alt(<<Lit(<<"p", "r", "o", "c", "e", "e",
      "d">>), Cat(<<Lit(<<"m", "o", "v", "e">>), Plus(Cls("s")), Lit(<<"f",
      "o", "r", "w", "a", "r", "d">>)>>)>>)>>),
    \* i(?:'ll|'d|'m)\s+(?:take|buy|purchase)
    Cat(<<Lit(<<"i">>), Alt(<<Lit(<<"'", "l", "l">>), Lit(<<"'", "d">>),
      Lit(<<"'", "m">>)>>), Plus(Cls("s")), Alt(<<Lit(<<"t", "a", "k", "e">>),
      Lit(<<"b", "u", "y">>), Lit(<<"p", "u", "r", "c", "h", "a", "s",
      "e">>)>>)>>),
    \* (?:sounds?|that's?)\s+(?:perfect|great|good).*(?:do\s+it|proceed)
    Cat(<<Alt(<<Cat(<<Lit(<<"s", "o", "u", "n", "d">>), Opt(Lit(<<"s">>))>>),
      Cat(<<Lit(<<"t", "h", "a", "t", "'">>), Opt(Lit(<<"s">>))>>)>>),
      Plus(Cls("s")), Alt(<<Lit(<<"p", "e", "r", "f", "e", "c", "t">>),
      Lit(<<"g", "r", "e", "a", "t">>), Lit(<<"g", "o", "o", "d">>)>>),
      Star(Cls("any")), Alt(<<Cat(<<Lit(<<"d", "o">>), Plus(Cls("s")),
      Lit(<<"i", "t">>)>>), Lit(<<"p", "r", "o", "c", "e", "e", "d">>)>>)>>),
    \* i'm\s+(?:ready|interested|in)
    Cat(<<Lit(<<"i", "'", "m">>), Plus(Cls("s")), Alt(<<Lit(<<"r", "e", "a",
      "d", "y">>), Lit(<<"i", "n", "t", "e", "r", "e", "s", "t", "e", "d">>),
      Lit(<<"i", "n">>)>>)>>),
    \* count\s+me\s+in
    Cat(<<Lit(<<"c", "o", "u", "n", "t">>), Plus(Cls("s")), Lit(<<"m", "e">>),
      Plus(Cls("s")), Lit(<<"i", "n">>)>>),
    \* let's\s+get\s+started
    Cat(<<Lit(<<"l", "e", "t", "'", "s">>), Plus(Cls("s")), Lit(<<"g", "e",
      "t">>), Plus(Cls("s")), Lit(<<"s", "t", "a", "r", "t", "e", "d">>)>>),
    \* i\s+want\s+(?:to|it)
    Cat(<<Lit(<<"i">>), Plus(Cls("s")), Lit(<<"w", "a", "n", "t">>),
      Plus(Cls("s")), Alt(<<Lit(<<"t", "o">>), Lit(<<"i", "t">>)>>)>>),
    \* go\s+ahead
    Cat(<<Lit(<<"g", "o">>), Plus(Cls("s")), Lit(<<"a", "h", "e", "a",
      "d">>)>>)
  >>

upsell_keywords ==
  <<
    \* (?:premium|deluxe|pro)\s+(?:package|version|tier|plan)
    Cat(<<Alt(<<Lit(<<"p", "r", "e", "m", "i", "u", "m">>), Lit(<<"d", "e",
      "l", "u", "x", "e">>), Lit(<<"p", "r", "o">>)>>), Plus(Cls("s")),
      Alt(<<Lit(<<"p", "a", "c", "k", "a", "g", "e">>), Lit(<<"v", "e", "r",
      "s", "i", "o", "n">>), Lit(<<"t", "i", "e", "r">>), Lit(<<"p", "l", "a",
      "n">>)>>)>>),
    \* (?:extended|additional)\s+(?:warranty|coverage|protection)
    Cat(<<Alt(<<Lit(<<"e", "x", "t", "e", "n", "d", "e", "d">>), Lit(<<"a",
      "d", "d", "i", "t", "i", "o", "n", "a", "l">>)>>), Plus(Cls("s")),
      Alt(<<Lit(<<"w", "a", "r", "r", "a", "n", "t", "y">>), Lit(<<"c", "o",
      "v", "e", "r", "a", "g", "e">>), Lit(<<"p", "r", "o", "t", "e", "c",
      "t", "i", "o", "n">>)>>)>>),
    \* (?:upgrade|add|include)\s+(?:to|the)
    Cat(<<Alt(<<Lit(<<"u", "p", "g", "r", "a", "d", "e">>), Lit(<<"a", "d",
      "d">>), Lit(<<"i", "n", "c", "l", "u", "d", "e">>)>>), Plus(Cls("s")),
      Alt(<<Lit(<<"t", "o">>), Lit(<<"t", "h", "e">>)>>)>>),
    \* (?:extra|additional)\s+(?:features?|services?)
    Cat(<<Alt(<<Lit(<<"e", "x", "t", "r", "a">>), Lit(<<"a", "d", "d", "i",
      "t", "i", "o", "n", "a", "l">>)>>), Plus(Cls("s")),
      Alt(<<Cat(<<Lit(<<"f", "e", "a", "t", "u", "r", "e">>),
      Opt(Lit(<<"s">>))>>), Cat(<<Lit(<<"s", "e", "r", "v", "i", "c", "e">>),
      Opt(Lit(<<"s">>))>>)>>)>>),
    \* (?:express|priority)\s+(?:delivery|shipping|service)
    Cat(<<Alt(<<Lit(<<"e", "x", "p", "r", "e", "s", "s">>), Lit(<<"p", "r",
      "i", "o", "r", "i", "t", "y">>)>>), Plus(Cls("s")), Alt(<<Lit(<<"d",
      "e", "l", "i", "v", "e", "r", "y">>), Lit(<<"s", "h", "i", "p", "p",
      "i", "n", "g">>), Lit(<<"s", "e", "r", "v", "i", "c", "e">>)>>)>>),
    \* (?:maintenance|support)\s+(?:plan|package)
    Cat(<<Alt(<<Lit(<<"m", "a", "i", "n", "t", "e", "n", "a", "n", "c",
      "e">>), Lit(<<"s", "u", "p", "p", "o", "r", "t">>)>>), Plus(Cls("s")),
      Alt(<<Lit(<<"p", "l", "a", "n">>), Lit(<<"p", "a", "c", "k", "a", "g",
      "e">>)>>)>>),
    \* insurance\s+(?:package|coverage)
    Cat(<<Lit(<<"i", "n", "s", "u", "r", "a", "n", "c", "e">>),
      Plus(Cls("s")), Alt(<<Lit(<<"p", "a", "c", "k", "a", "g", "e">>),
      Lit(<<"c", "o", "v", "e", "r", "a", "g", "e">>)>>)>>),
    \* installation\s+service
    Cat(<<Lit(<<"i", "n", "s", "t", "a", "l", "l", "a", "t", "i", "o", "n">>),
      Plus(Cls("s")), Lit(<<"s", "e", "r", "v", "i", "c", "e">>)>>)
  >>

\* \$?\s*(\d+(?:,\d{3})*(?:\.\d{2})?): what precedes the group, and group 1.
amount_prefix ==
  Cat(<<Opt(Lit(<<"$">>)), Star(Cls("s"))>>)

amount_group ==
  Cat(<<Plus(Cls("d")), Star(Cat(<<Lit(<<",">>), Rep(Cls("d"), 3, 3)>>)),
    Opt(Cat(<<Lit(<<".">>), Rep(Cls("d"), 2, 2)>>))>>)

positive_keywords ==
  {
    <<"e", "x", "c", "e", "l", "l", "e", "n", "t">>,
    <<"f", "a", "n", "t", "a", "s", "t", "i", "c">>,
    <<"g", "r", "e", "a", "t">>,
    <<"w", "o", "n", "d", "e", "r", "f", "u", "l">>,
    <<"a", "m", "a", "z", "i", "n", "g">>,
    <<"p", "e", "r", "f", "e", "c", "t">>,
    <<"o", "u", "t", "s", "t", "a", "n", "d", "i", "n", "g">>,
    <<"i", "m", "p", "r", "e", "s", "s", "i", "v", "e">>,
    <<"s", "a", "t", "i", "s", "f", "i", "e", "d">>,
    <<"h", "a", "p", "p", "y">>,
    <<"h", "e", "l", "p", "f", "u", "l">>,
    <<"p", "r", "o", "f", "e", "s", "s", "i", "o", "n", "a", "l">>,
    <<"r", "e", "c", "o", "m", "m", "e", "n", "d">>,
    <<"p", "l", "e", "a", "s", "e", "d">>,
    <<"d", "e", "l", "i", "g", "h", "t", "e", "d">>,
    <<"l", "o", "v", "e">>,
    <<"b", "e", "s", "t">>,
    <<"a", "w", "e", "s", "o", "m", "e">>,
    <<"b", "r", "i", "l", "l", "i", "a", "n", "t">>,
    <<"s", "u", "p", "e", "r", "b">>
  }

negative_keywords ==
  {
    <<"t", "e", "r", "r", "i", "b", "l", "e">>,
    <<"h", "o", "r", "r", "i", "b", "l", "e">>,
    <<"a", "w", "f", "u", "l">>,
    <<"d", "i", "s", "a", "p", "p", "o", "i", "n", "t", "e", "d">>,
    <<"f", "r", "u", "s", "t", "r", "a", "t", "e", "d">>,
    <<"u", "n", "a", "c", "c", "e", "p", "t", "a", "b", "l", "e">>,
    <<"p", "o", "o", "r">>,
    <<"b", "a", "d">>,
    <<"w", "o", "r", "s", "t">>,
    <<"a", "n", "g", "r", "y">>,
    <<"u", "p", "s", "e", "t">>,
    <<"u", "n", "s", "a", "t", "i", "s", "f", "i", "e", "d">>,
    <<"r", "i", "d", "i", "c", "u", "l", "o", "u", "s">>,
    <<"w", "a", "s", "t", "e">>,
    <<"u", "s", "e", "l", "e", "s", "s">>,
    <<"u", "n", "p", "r", "o", "f", "e", "s", "s", "i", "o", "n", "a", "l">>,
    <<"r", "u", "d", "e">>,
    <<"i", "n", "c", "o", "m", "p", "e", "t", "e", "n", "t">>,
    <<"d", "i", "s", "g", "u", "s", "t", "e", "d">>,
    <<"p", "a", "t", "h", "e", "t", "i", "c">>
  }

negation_words ==
  {
    <<"n", "o", "t">>,
    <<"n", "o">>,
    <<"n", "e", "v", "e", "r">>,
    <<"n", "e", "i", "t", "h", "e", "r">>,
    <<"n", "o", "r">>,
    <<"d", "o", "n", "'", "t">>,
    <<"d", "o", "e", "s", "n", "'", "t">>,
    <<"d", "i", "d", "n", "'", "t">>,
    <<"w", "o", "n", "'", "t">>,
    <<"w", "o", "u", "l", "d", "n", "'", "t">>,
    <<"s", "h", "o", "u", "l", "d", "n", "'", "t">>,
    <<"c", "o", "u", "l", "d", "n", "'", "t">>,
    <<"c", "a", "n", "'", "t">>,
    <<"c", "a", "n", "n", "o", "t">>
  }

\* \b\w+\b
word_pattern ==
  Cat(<<WordB, Plus(Cls("w")), WordB>>)

\* The engine after __init__ (lines 45-49): its six attributes.
NewEngine ==
  [conversion_pattern |-> Alt(conversion_phrases),
   amount_pattern |-> [prefix |-> amount_prefix, group |-> amount_group],
   upsell_pattern |-> Alt(upsell_keywords),
   positive_keywords |-> positive_keywords,
   negative_keywords |-> negative_keywords,
   negation_words |-> negation_words]

(***************************************************************************)
(* Values.  None is Python's None: a sequence that is no string over the   *)
(* alphabet.  A float that the code derives from integers by one division  *)
(* is kept as the exact fraction num/den (den > 0); a Decimal amount is    *)
(* kept in hundredths (cents), which is exact for every token of           *)
(* amount_pattern (at most two fractional digits).                         *)
(***************************************************************************)
None == <<"None">>

\* `not transcript`: None and the empty string are falsy.
Falsy(transcript) == transcript = None \/ transcript = <<>>

Frac(n, d) == [num |-> n, den |-> d]

FracLeq(a, b) == a.num * b.den <= b.num * a.den

FracLess(a, b) == a.num * b.den < b.num * a.den

FracEq(a, b) == a.num * b.den = b.num * a.den

\* A variant of MinOne that leaves its argument as it is: the confidence
\* without the clamp of lines 145 and 269.
Unclamped(x) == x

\* min(x, 1.0)
MinOne(x) == IF FracLess(Frac(1, 1), x) THEN Frac(1, 1) ELSE x

\* A variant of NoConversion that keeps the base confidence of a match.
NoConversionBaseConfidence ==
  [is_conversion |-> FALSE, conversion_phrase |-> None,
   confidence |-> Frac(7, 10)]

\* ConversionResult(is_conversion=False): the dataclass defaults.
NoConversion ==
  [is_conversion |-> FALSE, conversion_phrase |-> None,
   confidence |-> Frac(0, 1)]

WINDOW == 100

PHRASE_LIMIT == 255

\* A variant of PositionConfidence without the position term: the base
\* confidence 0.7 wherever the phrase is found.
FlatConfidence(start, length) == Frac(7, 10)

\* The confidence of a match (lines 139-145):
\* min(0.7 + (match.start() / len(transcript)) * 0.3, 1.0).
PositionConfidence(start, length) ==
  MinOne(Frac(7 * length + 3 * start, 10 * length))

\* A variant of ConversionOf that reports the whole matched text.
ConversionOfWholeMatch(transcript, text, match) ==
  IF match.found
  THEN [is_conversion |-> TRUE,
        conversion_phrase |-> group(text, match),
        confidence |-> PositionConfidence(match.start, Len(transcript))]
  ELSE NoConversion

\* A variant of ConversionOf that divides the offset by the length of the
\* lower-cased text, in which the offset was found.
ConversionOfLowered(transcript, text, match) ==
  IF match.found
  THEN [is_conversion |-> TRUE,
        conversion_phrase |-> Slice(group(text, match), 0, PHRASE_LIMIT),
        confidence |-> PositionConfidence(match.start, Len(text))]
  ELSE NoConversion

\* Lines 136-148 of detect_conversion: the result for the match found in
\* the lower-cased text.
ConversionOf(transcript, text, match) ==
  IF match.found
  THEN [is_conversion |-> TRUE,
        conversion_phrase |-> Slice(group(text, match), 0, PHRASE_LIMIT),
        confidence |-> PositionConfidence(match.start, Len(transcript))]
  ELSE NoConversion

ConversionIn(self, transcript, text) ==
  ConversionOf(transcript, text, search(self.conversion_pattern, text))

\* detect_conversion(self, transcript)
detect_conversion(self, transcript) ==
  IF Falsy(transcript) THEN NoConversion
  ELSE ConversionIn(self, transcript, lower(transcript))

\* Pattern.findall: the non-overlapping matches taken from the left.  starts
\* are the positions where a match exists; the scan resumes where the match
\* taken ended (one character on after an empty match).
RECURSIVE Scan(_, _, _, _)

ScanTake(r, s, starts, i, e) ==
  <<[start |-> i, end |-> e]>>
  \o Scan(r, s, starts, IF e > i THEN e ELSE i + 1)

ScanNext(r, s, starts, i) == ScanTake(r, s, starts, i, Head(Ends(r, s, i)))

ScanAhead(r, s, starts, ahead) ==
  IF ahead = {} THEN <<>> ELSE ScanNext(r, s, starts, Min(ahead))

Scan(r, s, starts, cursor) ==
  ScanAhead(r, s, starts, {i \in starts : i >= cursor})

\* Where group 1 starts in the match of prefix-then-group that begins at i:
\* the first end of the prefix, in backtracking order, from which the group
\* matches.
FirstGroupStart(p, s, starts) ==
  starts[Min({k \in DOMAIN starts : Ends(p.group, s, starts[k]) # <<>>})]

GroupStart(p, s, i) == FirstGroupStart(p, s, Ends(p.prefix, s, i))

GroupTexts(p, s, spans) ==
  [k \in DOMAIN spans |->
     SubSeq(s, GroupStart(p, s, spans[k].start), spans[k].end - 1)]

MatchTexts(s, spans) ==
  [k \in DOMAIN spans |-> SubSeq(s, spans[k].start, spans[k].end - 1)]

Spans(r, s) == Scan(r, s, MatchStarts(r, s), 1)

\* findall of a pattern with one group: group 1 of every match.
findall_group(p, s) == GroupTexts(p, s, Spans(Cat(<<p.prefix, p.group>>), s))

\* findall of a pattern without groups: the text of every match.
findall(r, s) == MatchTexts(s, Spans(r, s))

\* str.replace(',', '')
RECURSIVE RemoveCommas(_)
RemoveCommas(s) ==
  IF s = <<>> THEN <<>>
  ELSE (IF Head(s) = "," THEN <<>> ELSE <<Head(s)>>) \o RemoveCommas(Tail(s))

\* Decimal(s) for a string of digits and dots: the constructor accepts digits
\* with at most one dot and raises InvalidOperation otherwise; its value in
\* hundredths (exact for up to two fractional digits).
RECURSIVE DigitsValue(_, _)
DigitsValue(s, acc) ==
  IF s = <<>> THEN acc ELSE DigitsValue(Tail(s), 10 * acc + DigitVal(Head(s)))

DotAt(s) ==
  IF \E k \in DOMAIN s : s[k] = "." THEN Min({k \in DOMAIN s : s[k] = "."})
  ELSE Len(s) + 1

IsDecimalLiteral(s) ==
  /\ \A k \in DOMAIN s : k # DotAt(s) => s[k] \in DigitSet
  /\ Len(s) - (IF DotAt(s) <= Len(s) THEN 1 ELSE 0) >= 1

CentsOf(whole, frac) ==
  100 * DigitsValue(whole, 0)
  + (IF Len(frac) = 1 THEN 10 ELSE 1) * DigitsValue(frac, 0)

DecimalCents(s) ==
  CentsOf(SubSeq(s, 1, DotAt(s) - 1), SubSeq(s, DotAt(s) + 1, Len(s)))

\* Lines 182-185: Decimal(amount_str), and 0.00 when it raises.
ParseAmount(amount_str) ==
  IF IsDecimalLiteral(amount_str) THEN DecimalCents(amount_str) ELSE 0

\* str.split(): the maximal runs of non-whitespace characters.
RECURSIVE SplitFrom(_, _, _)
SplitFrom(s, i, word) ==
  IF i > Len(s) THEN (IF word = <<>> THEN <<>> ELSE <<word>>)
  ELSE IF s[i] \in SpaceSet
    THEN (IF word = <<>> THEN <<>> ELSE <<word>>) \o SplitFrom(s, i + 1, <<>>)
  ELSE SplitFrom(s, i + 1, Append(word, s[i]))

split(s) == SplitFrom(s, 1, <<>>)

\* str.strip()
RECURSIVE lstrip(_), rstrip(_)
lstrip(s) == IF s # <<>> /\ Head(s) \in SpaceSet THEN lstrip(Tail(s)) ELSE s

rstrip(s) ==
  IF s # <<>> /\ s[Len(s)] \in SpaceSet
  THEN rstrip(SubSeq(s, 1, Len(s) - 1)) ELSE s

strip(s) == rstrip(lstrip(s))

\* A variant of capitalize that keeps the word as it was matched.
keep_case(word) == word

\* str.capitalize(): the first character upper-cased, the rest lower-cased.
capitalize(word) ==
  IF word = <<>> THEN <<>> ELSE <<UpperChar(Head(word))>> \o lower(Tail(word))

\* ' '.join(words)
JoinSpace(words) ==
  Flatten([k \in DOMAIN words |->
             (IF k = 1 THEN <<>> ELSE <<" ">>) \o words[k]],
          1, Len(words))

CapitalizeAll(words) == [k \in DOMAIN words |-> capitalize(words[k])]

OrNone(s) == IF s # <<>> THEN s ELSE None

\* A variant of _extract_product_name that title-cases the stripped text in
\* place (as str.title() does) and so keeps the whitespace between the words
\* as it was matched.
title_in_place(upsell_text) ==
  [k \in DOMAIN upsell_text |->
     IF k = 1 \/ upsell_text[k - 1] \in SpaceSet
     THEN UpperChar(upsell_text[k]) ELSE upsell_text[k]]

extract_product_name_titled(upsell_text) ==
  OrNone(title_in_place(lower(strip(upsell_text))))

\* _extract_product_name(self, upsell_text)
extract_product_name(upsell_text) ==
  OrNone(JoinSpace(CapitalizeAll(split(strip(upsell_text)))))

NoUpsell == [has_upsell |-> FALSE, amount |-> 0, product |-> None]

\* The context window of extract_upsell (lines 172-174) for a keyword match
\* found in the lower-cased transcript.
ContextWindow(transcript, upsell_match) ==
  [start |-> IF upsell_match.start - WINDOW < 0 THEN 0
             ELSE upsell_match.start - WINDOW,
   end |-> IF Len(transcript) < upsell_match.end + WINDOW
           THEN Len(transcript) ELSE upsell_match.end + WINDOW]

\* transcript[start:end]
Context(transcript, w) == Slice(transcript, w.start, w.end)

\* product[:255] if product else None
LimitProduct(product) ==
  IF product # None THEN Slice(product, 0, PHRASE_LIMIT) ELSE None

\* The sum of the amounts of amount_matches[k..].
RECURSIVE SumOfAmounts(_, _)
SumOfAmounts(amount_matches, k) ==
  IF k > Len(amount_matches) THEN 0
  ELSE ParseAmount(RemoveCommas(amount_matches[k]))
       + SumOfAmounts(amount_matches, k + 1)

\* A variant of UpsellOf that adds up every amount found in the context.
UpsellOfSummingAmounts(amount_matches, upsell_text) ==
  IF amount_matches # <<>>
  THEN [has_upsell |-> TRUE,
        amount |-> SumOfAmounts(amount_matches, 1),
        product |-> LimitProduct(extract_product_name(upsell_text))]
  ELSE NoUpsell

\* A variant of UpsellOf that names the product of the keyword also when no
\* amount was found.
UpsellOfNamingProduct(amount_matches, upsell_text) ==
  IF amount_matches # <<>>
  THEN [has_upsell |-> TRUE,
        amount |-> ParseAmount(RemoveCommas(amount_matches[1])),
        product |-> LimitProduct(extract_product_name(upsell_text))]
  ELSE [has_upsell |-> FALSE, amount |-> 0,
        product |-> LimitProduct(extract_product_name(upsell_text))]

\* Lines 179-196: the result for the amounts found in the context.
UpsellOf(amount_matches, upsell_text) ==
  IF amount_matches # <<>>
  THEN [has_upsell |-> TRUE,
        amount |-> ParseAmount(RemoveCommas(amount_matches[1])),
        product |-> LimitProduct(extract_product_name(upsell_text))]
  ELSE NoUpsell

\* Lines 168-177: the result for the keyword match found in the lower-cased
\* transcript.
UpsellAt(self, transcript, transcript_lower, upsell_match) ==
  IF ~upsell_match.found THEN NoUpsell
  ELSE UpsellOf(
         findall_group(self.amount_pattern,
                       Context(transcript,
                               ContextWindow(transcript, upsell_match))),
         group(transcript_lower, upsell_match))

\* Every keyword match of the lower-cased transcript, in text order, as
\* Pattern.finditer would give them (0-based offsets, end exclusive).
KeywordMatches(self, transcript_lower) ==
  LET spans == Spans(self.upsell_pattern, transcript_lower)
  IN  [k \in DOMAIN spans |->
         [found |-> TRUE, start |-> spans[k].start - 1,
          end |-> spans[k].end - 1]]

\* The first of the matches whose context holds an amount, or no match.
FirstPriced(self, transcript, matches) ==
  LET priced == {k \in DOMAIN matches :
                   findall_group(self.amount_pattern,
                                 Context(transcript,
                                         ContextWindow(transcript,
                                                       matches[k]))) # <<>>}
  IN  IF priced = {} THEN NoMatch ELSE matches[Min(priced)]

\* A variant of UpsellIn that goes on to later keyword matches when the
\* first has no amount in its context.
UpsellInAnyMatch(self, transcript, transcript_lower) ==
  UpsellAt(self, transcript, transcript_lower,
           FirstPriced(self, transcript,
                       KeywordMatches(self, transcript_lower)))

UpsellIn(self, transcript, transcript_lower) ==
  UpsellAt(self, transcript, transcript_lower,
           search(self.upsell_pattern, transcript_lower))

\* extract_upsell(self, transcript)
extract_upsell(self, transcript) ==
  IF Falsy(transcript) THEN NoUpsell
  ELSE UpsellIn(self, transcript, lower(transcript))

\* A variant of check_negation that looks at the previous word only.
check_negation_previous(self, words, index) ==
  index > 1 /\ words[index - 1] \in self.negation_words

\* A variant of check_negation that finds no negation anywhere.
check_negation_never(self, words, index) == FALSE

\* _check_negation(self, words, index): a negation word among the (at most)
\* two words before words[index].  Indices are 1-based here.
check_negation(self, words, index) ==
  \E i \in (IF index - 2 < 1 THEN 1 ELSE index - 2)..(index - 1) :
    words[i] \in self.negation_words

\* A variant of Contribution in which a negated keyword counts for nothing.
ContributionDroppingNegated(self, words, i) ==
  IF check_negation(self, words, i) THEN "none"
  ELSE IF words[i] \in self.positive_keywords THEN "positive"
  ELSE IF words[i] \in self.negative_keywords THEN "negative"
  ELSE "none"

\* What the loop body of analyze_sentiment (lines 232-245) adds for
\* words[i]: one positive hit, one negative hit, or nothing.
Contribution(self, words, i) ==
  IF words[i] \in self.positive_keywords
  THEN (IF check_negation(self, words, i) THEN "negative" ELSE "positive")
  ELSE IF words[i] \in self.negative_keywords
  THEN (IF check_negation(self, words, i) THEN "positive" ELSE "negative")
  ELSE "none"

\* The counters after the loop over words.
CountHits(self, words) ==
  [positive_count |->
     Cardinality({i \in DOMAIN words :
                    Contribution(self, words, i) = "positive"}),
   negative_count |->
     Cardinality({i \in DOMAIN words :
                    Contribution(self, words, i) = "negative"})]

\* A variant of NeutralDefault that reports no confidence at all for a
\* transcript without evidence.
NeutralZeroConfidence ==
  [sentiment |-> "neutral", confidence |-> Frac(0, 1),
   positive_count |-> 0, negative_count |-> 0]

NeutralDefault ==
  [sentiment |-> "neutral", confidence |-> Frac(1, 2),
   positive_count |-> 0, negative_count |-> 0]

SENTIMENT_SATURATION == 20

\* A variant of Label whose thresholds are inclusive: a score of exactly 0.2
\* is positive and one of exactly -0.2 negative.
LabelInclusive(positive_count, negative_count) ==
  IF 5 * (positive_count - negative_count) >= positive_count + negative_count
  THEN "positive"
  ELSE IF 5 * (positive_count - negative_count)
          <= -(positive_count + negative_count)
  THEN "negative"
  ELSE "neutral"

\* Lines 259-266.  sentiment_score > 0.2 is 5 * (positive - negative) >
\* total: the quotient of two small integers is rounded to the double
\* nearest to it, and 0.2 is the double nearest to 1/5, so the comparison of
\* the doubles is the comparison of the rationals.
Label(positive_count, negative_count) ==
  IF 5 * (positive_count - negative_count) > positive_count + negative_count
  THEN "positive"
  ELSE IF 5 * (positive_count - negative_count)
          < -(positive_count + negative_count)
  THEN "negative"
  ELSE "neutral"

\* A variant of SentimentOf whose confidence grows with the difference of the
\* two counters instead of their sum.
SentimentOfNetHits(n) ==
  IF n.positive_count + n.negative_count = 0 THEN NeutralDefault
  ELSE [sentiment |-> Label(n.positive_count, n.negative_count),
        confidence |->
          MinOne(Frac(IF n.positive_count >= n.negative_count
                      THEN n.positive_count - n.negative_count
                      ELSE n.negative_count - n.positive_count,
                      SENTIMENT_SATURATION)),
        positive_count |-> n.positive_count,
        negative_count |-> n.negative_count]

\* Lines 247-276: the result for the two counters.
SentimentOf(n) ==
  IF n.positive_count + n.negative_count = 0 THEN NeutralDefault
  ELSE [sentiment |-> Label(n.positive_count, n.negative_count),
        confidence |->
          MinOne(Frac(n.positive_count + n.negative_count,
                      SENTIMENT_SATURATION)),
        positive_count |-> n.positive_count,
        negative_count |-> n.negative_count]

\* re.findall(r'\b\w+\b', transcript.lower())
Words(transcript) == findall(word_pattern, lower(transcript))

\* analyze_sentiment(self, transcript)
analyze_sentiment(self, transcript) ==
  IF Falsy(transcript) THEN NeutralDefault
  ELSE SentimentOf(CountHits(self, Words(transcript)))

\* A variant of _estimate_call_duration that truncates once, at the end:
\* int((length / 5 / 150) * 60 * 1.2).
estimate_call_duration_once(transcript_length) ==
  (transcript_length * 72) \div 750

\* _estimate_call_duration(self, transcript_length):
\* int(int((length / 5 / 150) * 60) * 1.2).  The doubles of the code give
\* these two floors for every length below 3075 (the first length at which
\* rounding makes them differ); the transcripts here are far shorter.
estimate_call_duration(transcript_length) ==
  (((transcript_length * 60) \div 750) * 12) \div 10

\* dict.get(key, default)
Get(d, key, default) == IF key \in DOMAIN d THEN d[key] ELSE default

Returned(v) == [status |-> "returned", value |-> v]

Raised(e) == [status |-> "raised", exception |-> e]

NotCalled == [status |-> "not_called"]

\* A variant of EnrichedRecord that stores the confidence of the conversion
\* where the confidence of the sentiment belongs.
EnrichedRecordMixingConfidences(data, transcript, conversion, upsell, sentiment) ==
  IF transcript = None THEN Raised("TypeError")
  ELSE Returned(
    [call_id |-> Get(data, "call_id", None),
     agent_name |-> Get(data, "agent_name", None),
     call_timestamp |-> Get(data, "timestamp", None),
     is_conversion |-> conversion.is_conversion,
     conversion_phrase |-> conversion.conversion_phrase,
     upsell_amount |-> upsell.amount,
     upsell_product |-> upsell.product,
     sentiment_score |-> sentiment.sentiment,
     sentiment_confidence |-> conversion.confidence,
     positive_keywords_count |-> sentiment.positive_count,
     negative_keywords_count |-> sentiment.negative_count,
     transcript_length |-> Len(transcript),
     call_duration_seconds |-> estimate_call_duration(Len(transcript))])

\* Lines 307-328 of transform_call_record: the enriched record built from
\* the three results, or the exception that leaves it (len(None) raises
\* TypeError).
EnrichedRecord(data, transcript, conversion, upsell, sentiment) ==
  IF transcript = None THEN Raised("TypeError")
  ELSE Returned(
    [call_id |-> Get(data, "call_id", None),
     agent_name |-> Get(data, "agent_name", None),
     call_timestamp |-> Get(data, "timestamp", None),
     is_conversion |-> conversion.is_conversion,
     conversion_phrase |-> conversion.conversion_phrase,
     upsell_amount |-> upsell.amount,
     upsell_product |-> upsell.product,
     sentiment_score |-> sentiment.sentiment,
     sentiment_confidence |-> sentiment.confidence,
     positive_keywords_count |-> sentiment.positive_count,
     negative_keywords_count |-> sentiment.negative_count,
     transcript_length |-> Len(transcript),
     call_duration_seconds |-> estimate_call_duration(Len(transcript))])

TransformWith(self, data, transcript) ==
  EnrichedRecord(data, transcript,
                 detect_conversion(self, transcript),
                 extract_upsell(self, transcript),
                 analyze_sentiment(self, transcript))

\* transform_call_record(self, call_data)
transform_call_record(self, data) ==
  TransformWith(self, data, Get(data, "transcript_text", <<>>))

(***************************************************************************)
(* Inputs.  A transcript is built from at most MaxFrags fragments joined   *)
(* by single spaces, or is one of the scenario transcripts.  The fragments *)
(* are a conversion phrase, an upsell keyword, an amount, a negation word, *)
(* a positive and a negative keyword, a filler word of WINDOW characters   *)
(* (so that a context window can be clipped on either side), the capital   *)
(* letter whose lower-case form has two characters, and the empty string   *)
(* (two of them joined give a whitespace-only transcript).                 *)
(***************************************************************************)
MaxFrags == 2

Filler == [k \in 1..WINDOW |-> "x"]

Fragments ==
  <<<<"g", "o", " ", "a", "h", "e", "a", "d">>,
    <<"p", "r", "o", " ", "p", "l", "a", "n">>,
    <<"$", "5">>,
    <<"n", "o", "t">>,
    <<"b", "e", "s", "t">>,
    <<"b", "a", "d">>,
    Filler,
    <<"U+0130">>,
    <<>> >>

\* The fragments picked by ks, joined by single spaces.
JoinFragments(ks) ==
  Flatten([j \in DOMAIN ks |->
             (IF j = 1 THEN <<>> ELSE <<" ">>) \o Fragments[ks[j]]],
          1, Len(ks))

FragmentTranscripts ==
  {JoinFragments(ks) :
     ks \in UNION {[1..n -> DOMAIN Fragments] : n \in 0..MaxFrags}}

ScenarioBooking ==
  <<"C", "u", "s", "t", "o", "m", "e", "r", ":", " ", "Y", "e", "s", ",", " ",
    "I", "'", "l", "l", " ", "b", "o", "o", "k", " ", "t", "h", "a", "t", " ",
    "a", "p", "p", "o", "i", "n", "t", "m", "e", "n", "t", ".", " ", "T", "h",
    "i", "s", " ", "i", "s", " ", "f", "a", "n", "t", "a", "s", "t", "i", "c",
    ".", " ", "I", "'", "l", "l", " ", "t", "a", "k", "e", " ", "t", "h", "e",
    " ", "p", "r", "e", "m", "i", "u", "m", " ", "p", "a", "c", "k", "a", "g",
    "e", " ", "f", "o", "r", " ", "a", "n", " ", "e", "x", "t", "r", "a", " ",
    "$", "5", "0", ".">>

ScenarioTerrible ==
  <<"T", "h", "i", "s", " ", "i", "s", " ", "t", "e", "r", "r", "i", "b", "l",
    "e", ",", " ", "n", "o", "t", " ", "g", "o", "o", "d", " ", "a", "t", " ",
    "a", "l", "l", ",", " ", "I", " ", "a", "m", " ", "n", "o", "t", " ", "h",
    "a", "p", "p", "y", ".">>

ScenarioNotExcellent ==
  <<"T", "h", "i", "s", " ", "i", "s", " ", "n", "o", "t", " ", "e", "x", "c",
    "e", "l", "l", "e", "n", "t">>

\* Nine capital letters whose lower-case forms have two characters each,
\* then a conversion phrase: the phrase starts, in the lower-cased text, at
\* an offset greater than the length of the transcript.
ScenarioDottedCapitals ==
  <<"U+0130", "U+0130", "U+0130", "U+0130", "U+0130", "U+0130", "U+0130",
    "U+0130", "U+0130", " ", "g", "o", " ", "a", "h", "e", "a", "d">>

\* A negative keyword whose negation word is two tokens before it.
ScenarioNotVeryBad ==
  <<"I", "t", " ", "w", "a", "s", " ", "n", "o", "t", " ", "v", "e", "r",
    "y", " ", "b", "a", "d">>

\* A transcript without any conversion phrase, upsell keyword or sentiment
\* keyword.
ScenarioHello ==
  <<"H", "e", "l", "l", "o", ",", " ", "w", "h", "a", "t", " ", "t", "i",
    "m", "e", " ", "i", "s", " ", "i", "t", "?">>

\* A conversion phrase longer than PHRASE_LIMIT characters.
ScenarioLongYes ==
  <<"Y", "e", "s", " ">> \o [k \in 1..(PHRASE_LIMIT + 5) |-> "x"]
  \o <<" ", "b", "o", "o", "k">>

\* "Yes" written with a sharp s: no conversion phrase matches, but one does
\* once the transcript is put in upper case ("YESS, BOOK IT").
ScenarioSharpS ==
  <<"Y", "e", "U+00DF", ",", " ", "b", "o", "o", "k", " ", "i", "t">>

\* An upsell keyword whose only amount begins more than WINDOW characters
\* after the keyword ends.
ScenarioFarAmount ==
  <<"p", "r", "o", " ", "p", "l", "a", "n", " ">> \o Filler
  \o <<" ", "$", "5">>

\* The same after nine capital letters whose lower-case forms have two
\* characters each: the keyword is found, in the lower-cased text, nine
\* places to the right of where it stands in the transcript.
ScenarioDisplacedWindow ==
  [k \in 1..9 |-> "U+0130"] \o <<" ">> \o ScenarioFarAmount

\* Two upsell keywords and three amounts, one of them before the first
\* keyword.
ScenarioTwoAmounts ==
  <<"$", "7", " ", "o", "f", "f", ".", " ", "p", "r", "o", " ", "p", "l", "a",
    "n", " ", "$", "5", ",", " ", "d", "e", "l", "u", "x", "e", " ", "v", "e",
    "r", "s", "i", "o", "n", " ", "$", "9">>

\* An upsell keyword in capitals whose words are separated by a space, a tab
\* and a space.
ScenarioTabbedKeyword ==
  <<"P", "R", "O", " ", "\t", " ", "P", "L", "A", "N", " ", "$", "5">>

\* A positive keyword right after a contraction of negation_words.
ScenarioDontLove ==
  <<"I", " ", "d", "o", "n", "'", "t", " ", "l", "o", "v", "e", " ", "i",
    "t">>

\* An upsell keyword with no amount within WINDOW characters, and a
\* second keyword, further on, with an amount next to it.
ScenarioLaterKeywordPriced ==
  <<"p", "r", "o", " ", "p", "l", "a", "n", " ">> \o Filler
  \o <<" ", "d", "e", "l", "u", "x", "e", " ", "v", "e", "r", "s", "i", "o", "n",
       " ", "$", "9">>

\* Two negation words before a negative keyword.
ScenarioNotNeverBad ==
  <<"n", "o", "t", " ", "n", "e", "v", "e", "r", " ", "b", "a", "d">>

ScenarioTranscripts ==
  {ScenarioBooking, ScenarioTerrible, ScenarioNotExcellent,
   ScenarioDottedCapitals, ScenarioNotVeryBad, ScenarioHello,
   ScenarioLongYes, ScenarioSharpS, ScenarioFarAmount,
   ScenarioDisplacedWindow, ScenarioTwoAmounts, ScenarioTabbedKeyword,
   ScenarioDontLove, ScenarioLaterKeywordPriced, ScenarioNotNeverBad}

\* Transcripts of p positive keywords followed by n negative ones, for the
\* thresholds of the sentiment label (3 and 2 give the score 0.2 exactly),
\* and transcripts of positive keywords only, one fewer than, as many as and
\* one more than saturate the sentiment confidence.
MaxMix == 3

KeywordMix(p, n) ==
  JoinFragments([k \in 1..(p + n) |-> IF k <= p THEN 5 ELSE 6])

MixTranscripts ==
  {KeywordMix(p, n) : p \in 0..MaxMix, n \in 0..MaxMix}

SaturationTranscripts ==
  {KeywordMix(p, 0) :
     p \in (SENTIMENT_SATURATION - 1)..(SENTIMENT_SATURATION + 1)}

Transcripts ==
  FragmentTranscripts \cup ScenarioTranscripts \cup MixTranscripts
  \cup SaturationTranscripts

(***************************************************************************)
(* The state machine.  A caller holds one call record and one engine.  It  *)
(* may call each analyzer on the record's transcript and the facade on the *)
(* record, in any order and any number of times; each variable holds what  *)
(* the last such call returned.  Other callers use the same engine on      *)
(* other transcripts in between: what they are returned is theirs, and     *)
(* only the engine they leave behind is state here.                        *)
(***************************************************************************)
Identity ==
  [call_id |-> "call-1", agent_name |-> "agent-1", timestamp |-> "ts-1"]

\* The records a caller can hold: a transcript, None for the transcript, or
\* no transcript_text key at all.
CallRecords ==
  {Identity @@ [transcript_text |-> t] : t \in Transcripts \cup {None}}
  \cup {Identity}

\* call_data.get('transcript_text', '') (line 296)
Transcript == Get(call_data, "transcript_text", <<>>)

Init ==
  /\ engine = NewEngine
  /\ call_data \in CallRecords
  /\ conversion_result = NotCalled
  /\ upsell_result = NotCalled
  /\ sentiment_result = NotCalled
  /\ enriched_data = NotCalled

\* engine.detect_conversion(t): no attribute of the engine is assigned.
DetectConversion(t) ==
  /\ engine' = engine
  /\ conversion_result' =
       IF t = Transcript THEN Returned(detect_conversion(engine, t))
       ELSE conversion_result
  /\ UNCHANGED <<call_data, upsell_result, sentiment_result, enriched_data>>

\* engine.extract_upsell(t)
ExtractUpsell(t) ==
  /\ engine' = engine
  /\ upsell_result' =
       IF t = Transcript THEN Returned(extract_upsell(engine, t))
       ELSE upsell_result
  /\ UNCHANGED <<call_data, conversion_result, sentiment_result,
                 enriched_data>>

\* A variant of AnalyzeSentiment that learns: the words of the transcript
\* it classified as positive join the engine's positive keywords.
AnalyzeSentimentLearning(t) ==
  /\ engine' =
       IF ~Falsy(t) /\ analyze_sentiment(engine, t).sentiment = "positive"
       THEN [engine EXCEPT !.positive_keywords =
               @ \cup {Words(t)[i] : i \in DOMAIN Words(t)}]
       ELSE engine
  /\ sentiment_result' =
       IF t = Transcript THEN Returned(analyze_sentiment(engine, t))
       ELSE sentiment_result
  /\ UNCHANGED <<call_data, conversion_result, upsell_result,
                 enriched_data>>

\* engine.analyze_sentiment(t)
AnalyzeSentiment(t) ==
  /\ engine' = engine
  /\ sentiment_result' =
       IF t = Transcript THEN Returned(analyze_sentiment(engine, t))
       ELSE sentiment_result
  /\ UNCHANGED <<call_data, conversion_result, upsell_result,
                 enriched_data>>

\* engine.transform_call_record(call_data)
TransformCallRecord ==
  /\ engine' = engine
  /\ enriched_data' = transform_call_record(engine, call_data)
  /\ UNCHANGED <<call_data, conversion_result, upsell_result,
                 sentiment_result>>

\* The transcripts the analyzers are called on: the caller's own and those
\* of the other callers.
Arguments == {Transcript} \cup ScenarioTranscripts

Next ==
  \/ \E t \in Arguments : DetectConversion(t)
  \/ \E t \in Arguments : ExtractUpsell(t)
  \/ \E t \in Arguments : AnalyzeSentiment(t)
  \/ TransformCallRecord

Spec == Init /\ [][Next]_vars

(***************************************************************************)
(* Properties.  Each is stated on what the calls returned, with the        *)
(* expected values written out rather than taken from the definitions      *)
(* above.                                                                  *)
(***************************************************************************)
IsReturned(r) == r.status = "returned"

\* The fraction x lies in the closed interval [0, 1].
InUnit(x) == x.den > 0 /\ 0 <= x.num /\ x.num <= x.den

\* sub occurs in s as a contiguous substring.
Contains(s, sub) ==
  \E i \in 1..(Len(s) - Len(sub) + 1) : SubSeq(s, i, i + Len(sub) - 1) = sub

\* C1: for an empty-string or missing (None) transcript, detect_conversion
\* returns is_conversion = false with confidence 0, extract_upsell returns
\* has_upsell = false with amount 0.00, and analyze_sentiment returns
\* 'neutral' with confidence 0.5 and both counts 0.
EmptyTranscriptDefaults ==
  (Transcript = <<>> \/ Transcript = None) =>
    /\ IsReturned(conversion_result) =>
         /\ conversion_result.value.is_conversion = FALSE
         /\ FracEq(conversion_result.value.confidence, Frac(0, 1))
    /\ IsReturned(upsell_result) =>
         /\ upsell_result.value.has_upsell = FALSE
         /\ upsell_result.value.amount = 0
    /\ IsReturned(sentiment_result) =>
         /\ sentiment_result.value.sentiment = "neutral"
         /\ FracEq(sentiment_result.value.confidence, Frac(1, 2))
         /\ sentiment_result.value.positive_count = 0
         /\ sentiment_result.value.negative_count = 0

\* The three analyzers have returned for a None transcript.
EmptyTranscriptAnalyzed ==
  /\ Transcript = None
  /\ IsReturned(conversion_result)
  /\ IsReturned(upsell_result)
  /\ IsReturned(sentiment_result)

\* C2: for every transcript, the confidence returned by detect_conversion
\* and the confidence returned by analyze_sentiment lie in [0, 1].
ConfidenceBounds ==
  /\ IsReturned(conversion_result) =>
       InUnit(conversion_result.value.confidence)
  /\ IsReturned(sentiment_result) =>
       InUnit(sentiment_result.value.confidence)

\* A conversion phrase found at an offset beyond the transcript's length
\* (the ratio of line 139 exceeds 1) with its confidence clamped to 1, and
\* the sentiment of the same transcript returned.
ConfidenceClamped ==
  /\ Transcript = ScenarioDottedCapitals
  /\ IsReturned(conversion_result)
  /\ conversion_result.value.is_conversion
  /\ FracEq(conversion_result.value.confidence, Frac(1, 1))
  /\ IsReturned(sentiment_result)

\* C3: transform_call_record returns a well-formed enriched record and never
\* raises, whether transcript_text is absent, None, empty, whitespace or any
\* other string; in the missing and empty cases the record carries the
\* empty-input defaults of the three analyzers.
FacadeNeverRaises ==
  /\ enriched_data.status # "raised"
  /\ (IsReturned(enriched_data)
      /\ (Transcript = <<>> \/ Transcript = None)) =>
       /\ enriched_data.value.is_conversion = FALSE
       /\ enriched_data.value.upsell_amount = 0
       /\ enriched_data.value.sentiment_score = "neutral"
       /\ FracEq(enriched_data.value.sentiment_confidence, Frac(1, 2))

\* The tokens of the caller's transcript, as analyze_sentiment sees them.
Tokens == IF Falsy(Transcript) THEN <<>> ELSE Words(Transcript)

\* One of the two tokens before token i of words is a negation word.
Negated(words, i) ==
  \E j \in {i - 2, i - 1} \cap DOMAIN words :
    words[j] \in engine.negation_words

\* The counters of result are those of a scan of words that counts every
\* keyword once, with its polarity flipped when it is negated.
CountsFlipped(result, words) ==
  /\ result.positive_count =
       Cardinality({i \in DOMAIN words :
          \/ words[i] \in engine.positive_keywords /\ ~Negated(words, i)
          \/ /\ words[i] \in engine.negative_keywords
             /\ words[i] \notin engine.positive_keywords
             /\ Negated(words, i)})
  /\ result.negative_count =
       Cardinality({i \in DOMAIN words :
          \/ words[i] \in engine.positive_keywords /\ Negated(words, i)
          \/ /\ words[i] \in engine.negative_keywords
             /\ words[i] \notin engine.positive_keywords
             /\ ~Negated(words, i)})

\* C4: a keyword token whose one or two immediately preceding tokens include
\* a negation word is counted with flipped polarity: positive_count counts
\* the positive keywords not negated and the negative keywords negated,
\* negative_count the negative keywords not negated and the positive
\* keywords negated; "This is not excellent" yields positive_count = 0 and
\* negative_count = 1.
NegationFlip ==
  IsReturned(sentiment_result) =>
    /\ CountsFlipped(sentiment_result.value, Tokens)
    /\ Transcript = ScenarioNotExcellent =>
         /\ sentiment_result.value.positive_count = 0
         /\ sentiment_result.value.negative_count = 1

\* A negative keyword negated from two tokens back has been counted as
\* positive.
NegatedKeywordCounted ==
  /\ Transcript = ScenarioNotVeryBad
  /\ IsReturned(sentiment_result)
  /\ sentiment_result.value.positive_count = 1
  /\ sentiment_result.value.negative_count = 0

PremiumPackage ==
  <<"P", "r", "e", "m", "i", "u", "m", " ", "P", "a", "c", "k", "a", "g",
    "e">>

PremiumPackageForAnExtra50 ==
  <<"P", "r", "e", "m", "i", "u", "m", " ", "P", "a", "c", "k", "a", "g",
    "e", " ", "F", "o", "r", " ", "A", "n", " ", "E", "x", "t", "r", "a",
    " ", "5", "0">>

\* C5, as the code has it: for the booking transcript the product name
\* produced by extract_upsell is exactly "Premium Package", the title-cased
\* matched keyword; the words that follow the keyword are not part of it.
BookingProductIsKeyword ==
  (Transcript = ScenarioBooking /\ IsReturned(upsell_result)) =>
    /\ upsell_result.value.product = PremiumPackage
    /\ ~Contains(upsell_result.value.product, PremiumPackageForAnExtra50)

\* C5, as stated: the product name contains "Premium Package For An Extra
\* 50".
BookingProductIsPhrase ==
  (Transcript = ScenarioBooking /\ IsReturned(upsell_result)) =>
    Contains(upsell_result.value.product, PremiumPackageForAnExtra50)

\* extract_upsell has returned an upsell with a product for the booking
\* transcript.
BookingUpsellExtracted ==
  /\ Transcript = ScenarioBooking
  /\ IsReturned(upsell_result)
  /\ upsell_result.value.has_upsell
  /\ upsell_result.value.product # None

Good == <<"g", "o", "o", "d">>

\* C6, as the code has it: for "This is terrible, not good at all, I am not
\* happy." analyze_sentiment returns 'negative' with negative_count = 2 and
\* positive_count = 0: the direct negative keyword "terrible" and the negated
\* positive keyword "happy".  "good" is in neither keyword set and is not
\* counted.
TerribleIsNegative ==
  (Transcript = ScenarioTerrible /\ IsReturned(sentiment_result)) =>
    /\ sentiment_result.value.sentiment = "negative"
    /\ sentiment_result.value.negative_count = 2
    /\ sentiment_result.value.positive_count = 0
    /\ Good \notin engine.positive_keywords \cup engine.negative_keywords

\* C6, as stated: the result is 'negative' and "good", negated by "not", is
\* one of the negative contributions, next to "terrible" (and the negated
\* "happy"): three negative hits.
TerribleCountsGood ==
  (Transcript = ScenarioTerrible /\ IsReturned(sentiment_result)) =>
    /\ sentiment_result.value.sentiment = "negative"
    /\ Good \in engine.positive_keywords
    /\ sentiment_result.value.negative_count = 3

\* analyze_sentiment has returned 'negative' for that transcript.
TerribleAnalyzed ==
  /\ Transcript = ScenarioTerrible
  /\ IsReturned(sentiment_result)
  /\ sentiment_result.value.sentiment = "negative"

\* C7: for the booking transcript the engine reports is_conversion = true
\* with confidence in (0.7, 1.0], has_upsell = true with amount 50.00, and
\* sentiment 'positive' with positive_count = 1 and negative_count = 0.
BookingScenario ==
  Transcript = ScenarioBooking =>
    /\ IsReturned(conversion_result) =>
         /\ conversion_result.value.is_conversion
         /\ FracLess(Frac(7, 10), conversion_result.value.confidence)
         /\ FracLeq(conversion_result.value.confidence, Frac(1, 1))
    /\ IsReturned(upsell_result) =>
         /\ upsell_result.value.has_upsell
         /\ upsell_result.value.amount = 5000
    /\ IsReturned(sentiment_result) =>
         /\ sentiment_result.value.sentiment = "positive"
         /\ sentiment_result.value.positive_count = 1
         /\ sentiment_result.value.negative_count = 0
    /\ IsReturned(enriched_data) =>
         /\ enriched_data.value.is_conversion
         /\ enriched_data.value.upsell_amount = 5000
         /\ enriched_data.value.sentiment_score = "positive"

\* The three analyzers and the facade have returned for the booking
\* transcript.
BookingAnalyzed ==
  /\ Transcript = ScenarioBooking
  /\ IsReturned(conversion_result)
  /\ IsReturned(upsell_result)
  /\ IsReturned(sentiment_result)
  /\ IsReturned(enriched_data)

\* The keyword match extract_upsell works from (line 166) and the window it
\* derives from it (lines 172-173), for the caller's transcript.
UpsellMatch ==
  IF Falsy(Transcript) THEN NoMatch
  ELSE search(engine.upsell_pattern, lower(Transcript))

\* 0 <= window_start <= match_start <= match_end <= window_end <= length
Chained(window, match, length) ==
  /\ 0 <= window.start
  /\ window.start <= match.start
  /\ match.start <= match.end
  /\ match.end <= window.end
  /\ window.end <= length

ChainedAt(transcript, match) ==
  match.found =>
    Chained(ContextWindow(transcript, match), match, Len(transcript))

\* C9: for every transcript and every position of the upsell keyword match,
\* 0 <= window_start <= match_start <= match_end <= window_end <= length.
WindowChain == IsReturned(upsell_result) => ChainedAt(Transcript, UpsellMatch)

\* C10: an analyzer called again on the same transcript with the same engine
\* returns what it returned before, whatever analyzer calls on other
\* transcripts happen in between: no call changes the engine's patterns or
\* keyword sets, a result once returned for the caller's transcript is never
\* replaced by a different one, and the facade reports what the analyzers
\* return.
AnalyzersIdempotent ==
  [][/\ engine' = engine
     /\ IsReturned(conversion_result) =>
          conversion_result' = conversion_result
     /\ IsReturned(upsell_result) => upsell_result' = upsell_result
     /\ IsReturned(sentiment_result) => sentiment_result' = sentiment_result
     /\ IsReturned(enriched_data) => enriched_data' = enriched_data
     /\ (IsReturned(enriched_data') /\ IsReturned(sentiment_result')) =>
          /\ enriched_data'.value.sentiment_score =
               sentiment_result'.value.sentiment
          /\ enriched_data'.value.positive_keywords_count =
               sentiment_result'.value.positive_count]_vars

\* Every analyzer and the facade have returned for a transcript with a
\* positive sentiment hit, on the engine as it was constructed.
AllReturned ==
  /\ engine = NewEngine
  /\ IsReturned(conversion_result)
  /\ IsReturned(upsell_result)
  /\ IsReturned(sentiment_result)
  /\ sentiment_result.value.positive_count > 0
  /\ IsReturned(enriched_data)
  /\ Transcript \notin ScenarioTranscripts

(***************************************************************************)
(* Concurrent use.  Several workers share the one engine and each runs     *)
(* transform_call_record on its own record, without locks.  The locals of  *)
(* an invocation (conversion_result, upsell_result, sentiment_result,      *)
(* enriched_data of lines 299-311) belong to the worker, so each variable  *)
(* is here a function from the workers to the value of that local; a local *)
(* not yet assigned is NotCalled, which also tells how far the worker has  *)
(* come.  A step is one statement of the facade; steps of different        *)
(* workers interleave in any order.                                        *)
(***************************************************************************)
MaxWorkers == 2

Workers == 1..MaxWorkers

WorkerRecords ==
  {Identity @@ [transcript_text |-> t] :
     t \in {ScenarioBooking, ScenarioTerrible, ScenarioNotExcellent, None}}
  \cup {Identity}

ConcurrentInit ==
  /\ engine = NewEngine
  /\ call_data \in [Workers -> WorkerRecords]
  /\ conversion_result = [w \in Workers |-> NotCalled]
  /\ upsell_result = [w \in Workers |-> NotCalled]
  /\ sentiment_result = [w \in Workers |-> NotCalled]
  /\ enriched_data = [w \in Workers |-> NotCalled]

\* transcript = call_data.get('transcript_text', '') of worker w (line 296)
WorkerTranscript(w) == Get(call_data[w], "transcript_text", <<>>)

\* conversion_result = self.detect_conversion(transcript) (line 299)
WorkerDetectConversion(w) ==
  /\ conversion_result[w] = NotCalled
  /\ engine' = engine
  /\ conversion_result' =
       [conversion_result EXCEPT
          ![w] = Returned(detect_conversion(engine, WorkerTranscript(w)))]
  /\ UNCHANGED <<call_data, upsell_result, sentiment_result, enriched_data>>

\* upsell_result = self.extract_upsell(transcript) (line 302)
WorkerExtractUpsell(w) ==
  /\ conversion_result[w] # NotCalled
  /\ upsell_result[w] = NotCalled
  /\ engine' = engine
  /\ upsell_result' =
       [upsell_result EXCEPT
          ![w] = Returned(extract_upsell(engine, WorkerTranscript(w)))]
  /\ UNCHANGED <<call_data, conversion_result, sentiment_result,
                 enriched_data>>

\* A variant of WorkerAnalyzeSentiment that learns: the words of a
\* transcript it classified as positive join the shared engine's positive
\* keywords.
WorkerAnalyzeSentimentLearning(w) ==
  /\ upsell_result[w] # NotCalled
  /\ sentiment_result[w] = NotCalled
  /\ engine' =
       IF /\ ~Falsy(WorkerTranscript(w))
          /\ analyze_sentiment(engine, WorkerTranscript(w)).sentiment
               = "positive"
       THEN [engine EXCEPT !.positive_keywords =
               @ \cup Range(Words(WorkerTranscript(w)))]
       ELSE engine
  /\ sentiment_result' =
       [sentiment_result EXCEPT
          ![w] = Returned(analyze_sentiment(engine, WorkerTranscript(w)))]
  /\ UNCHANGED <<call_data, conversion_result, upsell_result,
                 enriched_data>>

\* sentiment_result = self.analyze_sentiment(transcript) (line 305)
WorkerAnalyzeSentiment(w) ==
  /\ upsell_result[w] # NotCalled
  /\ sentiment_result[w] = NotCalled
  /\ engine' = engine
  /\ sentiment_result' =
       [sentiment_result EXCEPT
          ![w] = Returned(analyze_sentiment(engine, WorkerTranscript(w)))]
  /\ UNCHANGED <<call_data, conversion_result, upsell_result,
                 enriched_data>>

\* Lines 307-328: the record built from the worker's three locals.
WorkerBuildRecord(w) ==
  /\ sentiment_result[w] # NotCalled
  /\ enriched_data[w] = NotCalled
  /\ engine' = engine
  /\ enriched_data' =
       [enriched_data EXCEPT
          ![w] = EnrichedRecord(call_data[w], WorkerTranscript(w),
                                conversion_result[w].value,
                                upsell_result[w].value,
                                sentiment_result[w].value)]
  /\ UNCHANGED <<call_data, conversion_result, upsell_result,
                 sentiment_result>>

ConcurrentNext ==
  \E w \in Workers :
    \/ WorkerDetectConversion(w)
    \/ WorkerExtractUpsell(w)
    \/ WorkerAnalyzeSentiment(w)
    \/ WorkerBuildRecord(w)

ConcurrentSpec == ConcurrentInit /\ [][ConcurrentNext]_vars

\* C11: when several workers invoke transform_call_record concurrently on
\* one shared engine with no locking, under every interleaving of their
\* steps each worker obtains exactly what a sequential call on its own input
\* on a fresh engine produces.
ConcurrentAsSequential ==
  \A w \in Workers :
    enriched_data[w] # NotCalled =>
      enriched_data[w] = transform_call_record(NewEngine, call_data[w])

\* Two workers with different transcripts have both obtained their records
\* (by any interleaving of their eight steps).
WorkersFinished ==
  /\ WorkerTranscript(1) = ScenarioBooking
  /\ WorkerTranscript(2) = ScenarioTerrible
  /\ IsReturned(enriched_data[1])
  /\ IsReturned(enriched_data[2])

\* No conversion phrase and no upsell keyword matches anywhere in text, and
\* none of its words is a sentiment keyword.
NoKeywordIn(text) ==
  /\ ~search(engine.conversion_pattern, text).found
  /\ ~search(engine.upsell_pattern, text).found
  /\ Range(findall(word_pattern, text))
       \cap (engine.positive_keywords \cup engine.negative_keywords) = {}

\* C12: for a non-empty transcript in which no conversion pattern, no upsell
\* keyword and no sentiment keyword occurs (e.g. "Hello, what time is it?"),
\* the engine returns is_conversion = false with conversion_phrase None and
\* confidence 0, has_upsell = false with amount 0.00, and sentiment
\* 'neutral' with confidence 0.5.
NoKeywordDefaults ==
  (~Falsy(Transcript) /\ NoKeywordIn(lower(Transcript))) =>
    /\ IsReturned(conversion_result) =>
         /\ conversion_result.value.is_conversion = FALSE
         /\ conversion_result.value.conversion_phrase = None
         /\ FracEq(conversion_result.value.confidence, Frac(0, 1))
    /\ IsReturned(upsell_result) =>
         /\ upsell_result.value.has_upsell = FALSE
         /\ upsell_result.value.amount = 0
    /\ IsReturned(sentiment_result) =>
         /\ sentiment_result.value.sentiment = "neutral"
         /\ FracEq(sentiment_result.value.confidence, Frac(1, 2))

\* The three analyzers have returned for "Hello, what time is it?", in which
\* nothing matches.
HelloAnalyzed ==
  /\ Transcript = ScenarioHello
  /\ NoKeywordIn(lower(Transcript))
  /\ IsReturned(conversion_result)
  /\ IsReturned(upsell_result)
  /\ IsReturned(sentiment_result)

\* C13: every UpsellResult returned by extract_upsell has amount >= 0, and
\* whenever has_upsell is false the amount is exactly 0.00 and the product
\* is None.
UpsellAmountInvariant ==
  IsReturned(upsell_result) =>
    /\ upsell_result.value.amount >= 0
    /\ ~upsell_result.value.has_upsell =>
         /\ upsell_result.value.amount = 0
         /\ upsell_result.value.product = None

\* extract_upsell has returned has_upsell = false for a transcript in which
\* an upsell keyword matches but no amount is near it.
KeywordWithoutAmount ==
  /\ IsReturned(upsell_result)
  /\ UpsellMatch.found
  /\ ~upsell_result.value.has_upsell

\* The names a field for the confidence of the conversion, and one for the
\* has_upsell flag, would have in the record.
ConversionConfidenceFields == {"confidence", "conversion_confidence"}

HasUpsellFields == {"has_upsell", "upsell_detected"}

\* The fields of record that come from the three results carry their values.
FlattenedFrom(record, conversion, upsell, sentiment) ==
  /\ record.is_conversion = conversion.is_conversion
  /\ record.conversion_phrase = conversion.conversion_phrase
  /\ record.upsell_amount = upsell.amount
  /\ record.upsell_product = upsell.product
  /\ record.sentiment_score = sentiment.sentiment
  /\ record.sentiment_confidence = sentiment.confidence
  /\ record.positive_keywords_count = sentiment.positive_count
  /\ record.negative_keywords_count = sentiment.negative_count

\* C14, as the code has it: the record returned by transform_call_record has
\* exactly the thirteen fields of lines 312-326; of the three results it
\* carries the conversion flag and phrase, the upsell amount and product,
\* and the sentiment label, confidence and both counts.  The confidence of
\* the conversion and the has_upsell flag are not in the record.
RecordFields ==
  IsReturned(enriched_data) =>
    /\ DOMAIN enriched_data.value =
         {"call_id", "agent_name", "call_timestamp", "is_conversion",
          "conversion_phrase", "upsell_amount", "upsell_product",
          "sentiment_score", "sentiment_confidence",
          "positive_keywords_count", "negative_keywords_count",
          "transcript_length", "call_duration_seconds"}
    /\ FlattenedFrom(enriched_data.value,
                     detect_conversion(engine, Transcript),
                     extract_upsell(engine, Transcript),
                     analyze_sentiment(engine, Transcript))

\* C14, as stated: the record contains, as named fields, every field of the
\* three results, the confidence of the conversion and has_upsell included.
RecordHasEveryField ==
  IsReturned(enriched_data) =>
    /\ {"is_conversion", "conversion_phrase", "upsell_amount",
        "upsell_product", "sentiment_score", "sentiment_confidence",
        "positive_keywords_count", "negative_keywords_count"}
         \subseteq DOMAIN enriched_data.value
    /\ ConversionConfidenceFields \cap DOMAIN enriched_data.value # {}
    /\ HasUpsellFields \cap DOMAIN enriched_data.value # {}

\* The facade has returned a record for a transcript with a conversion, an
\* upsell and a sentiment hit.
RecordOfAllThree ==
  /\ IsReturned(enriched_data)
  /\ enriched_data.value.is_conversion
  /\ enriched_data.value.upsell_product # None
  /\ enriched_data.value.positive_keywords_count > 0

\* The match detect_conversion works from (line 134), for the caller's
\* transcript.
ConversionMatch ==
  IF Falsy(Transcript) THEN NoMatch
  ELSE search(engine.conversion_pattern, lower(Transcript))

\* min(1.0, 0.7 + 0.3 * (start / length)) as a fraction.
ClampedPositionValue(start, length) ==
  IF 7 * length + 3 * start > 10 * length THEN Frac(1, 1)
  ELSE Frac(7 * length + 3 * start, 10 * length)

ConfidenceFollowsPosition(result, match, length) ==
  /\ match.found
  /\ FracEq(result.confidence, ClampedPositionValue(match.start, length))
  /\ match.start = 0 => FracEq(result.confidence, Frac(7, 10))
  /\ FracLeq(Frac(7, 10), result.confidence)

\* C16: when detect_conversion finds a match, its confidence equals
\* min(1.0, 0.7 + 0.3 * (start offset of the match / length of the
\* transcript)); it is exactly 0.7 for a match at offset 0 and never below
\* 0.7 for any match.
ConfidencePolicy ==
  (IsReturned(conversion_result) /\ conversion_result.value.is_conversion) =>
    ConfidenceFollowsPosition(conversion_result.value, ConversionMatch,
                              Len(Transcript))

\* A match at offset 0 has been reported with confidence 0.7.
MatchAtOffsetZero ==
  /\ IsReturned(conversion_result)
  /\ conversion_result.value.is_conversion
  /\ ConversionMatch.found
  /\ ConversionMatch.start = 0
  /\ FracEq(conversion_result.value.confidence, Frac(7, 10))

\* str.upper(): the upper-case forms of the characters of s; the sharp s
\* becomes "SS".
UpperForm(c) ==
  IF c \in LowerSet THEN <<UpperLetters[IndexOf(LowerLetters, c)]>>
  ELSE IF c = "U+00DF" THEN <<"S", "S">>
  ELSE <<c>>

upper(s) == Flatten([k \in DOMAIN s |-> UpperForm(s[k])], 1, Len(s))

\* s with its letters a..z in upper case and every other character kept.
AsciiUpper(s) ==
  [k \in DOMAIN s |->
     IF s[k] \in LowerSet THEN UpperLetters[IndexOf(LowerLetters, s[k])]
     ELSE s[k]]

\* The positions of text at which conversion phrase k matches.
PhraseStarts(text, k) ==
  {i \in 1..(Len(text) + 1) : Ends(conversion_phrases[k], text, i) # <<>>}

AnyPhraseStarts(text) ==
  UNION {PhraseStarts(text, k) : k \in DOMAIN conversion_phrases}

\* The text of the leftmost match: at the smallest position at which a
\* phrase matches, the first phrase of the list that matches there.
PhraseAt(text, i) ==
  SubSeq(text, i,
         Head(Ends(conversion_phrases[
                     Min({k \in DOMAIN conversion_phrases :
                            Ends(conversion_phrases[k], text, i) # <<>>})],
                   text, i)) - 1)

LeftmostPhrase(text, starts) == PhraseAt(text, Min(starts))

\* result is what the claim describes for the lower-cased transcript text,
\* in which the phrases match at starts.
FirstMatchWins(result, text, starts) ==
  /\ result.is_conversion = (starts # {})
  /\ starts # {} =>
       /\ Len(result.conversion_phrase) <= PHRASE_LIMIT
       /\ result.conversion_phrase =
            Slice(LeftmostPhrase(text, starts), 0, PHRASE_LIMIT)

FirstMatchIn(result, text) ==
  FirstMatchWins(result, text, AnyPhraseStarts(text))

\* C17, as the code has it: detect_conversion reports is_conversion = true
\* exactly when some conversion pattern matches somewhere in the lower-cased
\* transcript; the flag is unchanged by changing the case of the letters
\* a..z and A..Z of the transcript (which leaves the lower-cased transcript
\* as it is); the reported phrase is the leftmost match, cut to at most 255
\* characters.
FirstMatchCaseInsensitive ==
  (IsReturned(conversion_result) /\ ~Falsy(Transcript)) =>
    /\ FirstMatchIn(conversion_result.value, lower(Transcript))
    /\ conversion_result.value.is_conversion =
         detect_conversion(engine, AsciiUpper(Transcript)).is_conversion

\* C17, as stated: the same, with the flag unchanged by any change of the
\* letter case of the transcript, str.upper() included.
FlagUnchangedByCase ==
  (IsReturned(conversion_result) /\ ~Falsy(Transcript)) =>
    /\ FirstMatchIn(conversion_result.value, lower(Transcript))
    /\ conversion_result.value.is_conversion =
         detect_conversion(engine, upper(Transcript)).is_conversion

\* A match of more than 255 characters has been reported, cut to 255.
LongPhraseReported ==
  /\ Transcript = ScenarioLongYes
  /\ IsReturned(conversion_result)
  /\ conversion_result.value.is_conversion
  /\ Len(conversion_result.value.conversion_phrase) = PHRASE_LIMIT


(***************************************************************************)
(* The keyword and the amounts near it, in the transcript's own offsets.   *)
(***************************************************************************)
\* The number of characters of lower(s) that come from the first n
\* characters of s.
LoweredLength(s, n) ==
  n + Cardinality({j \in 1..n : Len(LowerChar(s[j])) = 2})

\* The offset in s that offset k of lower(s) comes from: the number of
\* characters of s whose lower-case forms end at or before k.
TranscriptOffset(s, k) ==
  Cardinality({n \in 1..Len(s) : LoweredLength(s, n) <= k})

\* Where the keyword found in the lower-cased transcript stands in the
\* transcript.
KeywordPlace(transcript, upsell_match) ==
  [start |-> TranscriptOffset(transcript, upsell_match.start),
   end |-> TranscriptOffset(transcript, upsell_match.end)]

\* The amount tokens of the transcript from WINDOW characters before the
\* keyword to WINDOW characters after it.
AmountsNear(self, transcript, place) ==
  findall_group(self.amount_pattern,
                Context(transcript, ContextWindow(transcript, place)))

NoPricedUpsellAt(result, transcript, upsell_match) ==
  (/\ upsell_match.found
   /\ AmountsNear(engine, transcript,
                  KeywordPlace(transcript, upsell_match)) = <<>>) =>
    ~result.has_upsell /\ result.amount = 0

\* C18: if an upsell keyword matches but no amount token lies within WINDOW
\* characters of that keyword in the transcript, extract_upsell returns
\* has_upsell = false with amount 0.00, even when an amount token stands
\* elsewhere in the transcript, more than WINDOW characters from the keyword.
KeywordWithoutNearbyAmount ==
  IsReturned(upsell_result) =>
    NoPricedUpsellAt(upsell_result.value, Transcript, UpsellMatch)

\* The case of C18 on a transcript whose lower-cased form has its length:
\* the keyword is found, its only amount is too far, no upsell is reported.
FarAmountIgnored ==
  /\ Transcript = ScenarioFarAmount
  /\ IsReturned(upsell_result)
  /\ ~upsell_result.value.has_upsell
  /\ upsell_result.value.amount = 0

(***************************************************************************)
(* Which amount extract_upsell reports.                                    *)
(***************************************************************************)
\* The amount tokens, in text order, of the context that lines 172-177 cut
\* out of the transcript for the keyword match.
ContextAmounts(self, transcript, upsell_match) ==
  findall_group(self.amount_pattern,
                Context(transcript, ContextWindow(transcript, upsell_match)))

\* The result reports the first of the tokens, and an upsell exactly when
\* there is one.
FirstAmountOf(result, tokens) ==
  /\ result.has_upsell = (tokens # <<>>)
  /\ tokens # <<>> => result.amount = ParseAmount(RemoveCommas(tokens[1]))

FirstAmountAt(result, transcript, upsell_match) ==
  IF upsell_match.found
  THEN FirstAmountOf(result,
                     ContextAmounts(engine, transcript, upsell_match))
  ELSE ~result.has_upsell

ProPlan == <<"P", "r", "o", " ", "P", "l", "a", "n">>

\* name is made of words that begin with a capital letter and go on in
\* lower-case letters, with one space between two words and none around.
TitleCased(name) ==
  /\ name # <<>>
  /\ name[1] # " " /\ name[Len(name)] # " "
  /\ \A k \in DOMAIN name :
       IF name[k] \in SpaceSet
       THEN name[k] = " " /\ k < Len(name) /\ name[k + 1] \notin SpaceSet
       ELSE IF k = 1 \/ name[k - 1] = " "
         THEN name[k] \in UpperSet
         ELSE name[k] \in LowerSet

\* name has the words of the keyword phrase, in their order.
NamesPhrase(name, phrase) == split(lower(name)) = split(phrase)

ProductNamed(result, phrase) ==
  result.has_upsell =>
    /\ result.product # None
    /\ Len(result.product) <= PHRASE_LIMIT
    /\ TitleCased(result.product)
    /\ NamesPhrase(result.product, phrase)

\* C20: whenever extract_upsell returns has_upsell = true, the product name
\* is the matched keyword phrase with each whitespace-separated word
\* capitalized (first letter upper case, rest lower case, words joined by
\* single spaces), has at most 255 characters, and is never None; for the
\* keyword written "PRO", space, tab, space, "PLAN" it is "Pro Plan".
ProductNameTitleCased ==
  IsReturned(upsell_result) =>
    /\ ProductNamed(upsell_result.value,
                    group(lower(Transcript), UpsellMatch))
    /\ Transcript = ScenarioTabbedKeyword =>
         upsell_result.value.product = ProPlan

\* A priced upsell has been returned for the keyword whose words are
\* separated by a space, a tab and a space.
TabbedKeywordNamed ==
  /\ Transcript = ScenarioTabbedKeyword
  /\ IsReturned(upsell_result)
  /\ upsell_result.value.has_upsell

(***************************************************************************)
(* CallTranscriptProcessor.__init__ and clean_transcript of                *)
(* converza-pipeline/src/etl_processors.py: the conversion patterns, the   *)
(* keyword lists and the contractions; the conversion phrases of the data  *)
(* generator and the transcript of test_etl_processing.                    *)
(***************************************************************************)
processor_conversion_patterns ==
  <<
    \* yes,?\s+i'?ll\s+book
    Cat(<<Lit(<<"y", "e", "s">>), Opt(Lit(<<",">>)), Plus(Cls("s")),
      Lit(<<"i">>), Opt(Lit(<<"'">>)), Lit(<<"l", "l">>), Plus(Cls("s")),
      Lit(<<"b", "o", "o", "k">>)>>),
    \* sign\s+me\s+up
    Cat(<<Lit(<<"s", "i", "g", "n">>), Plus(Cls("s")), Lit(<<"m", "e">>),
      Plus(Cls("s")), Lit(<<"u", "p">>)>>),
    \* let'?s\s+proceed
    Cat(<<Lit(<<"l", "e", "t">>), Opt(Lit(<<"'">>)), Lit(<<"s">>),
      Plus(Cls("s")), Lit(<<"p", "r", "o", "c", "e", "e", "d">>)>>),
    \* i'?d\s+like\s+to\s+move\s+forward
    Cat(<<Lit(<<"i">>), Opt(Lit(<<"'">>)), Lit(<<"d">>), Plus(Cls("s")),
      Lit(<<"l", "i", "k", "e">>), Plus(Cls("s")), Lit(<<"t", "o">>),
      Plus(Cls("s")), Lit(<<"m", "o", "v", "e">>), Plus(Cls("s")), Lit(<<"f",
      "o", "r", "w", "a", "r", "d">>)>>),
    \* sounds\s+perfect,?\s+let'?s\s+do\s+it
    Cat(<<Lit(<<"s", "o", "u", "n", "d", "s">>), Plus(Cls("s")), Lit(<<"p",
      "e", "r", "f", "e", "c", "t">>), Opt(Lit(<<",">>)), Plus(Cls("s")),
      Lit(<<"l", "e", "t">>), Opt(Lit(<<"'">>)), Lit(<<"s">>), Plus(Cls("s")),
      Lit(<<"d", "o">>), Plus(Cls("s")), Lit(<<"i", "t">>)>>),
    \* i'?m\s+ready\s+to\s+buy
    Cat(<<Lit(<<"i">>), Opt(Lit(<<"'">>)), Lit(<<"m">>), Plus(Cls("s")),
      Lit(<<"r", "e", "a", "d", "y">>), Plus(Cls("s")), Lit(<<"t", "o">>),
      Plus(Cls("s")), Lit(<<"b", "u", "y">>)>>),
    \* count\s+me\s+in
    Cat(<<Lit(<<"c", "o", "u", "n", "t">>), Plus(Cls("s")), Lit(<<"m", "e">>),
      Plus(Cls("s")), Lit(<<"i", "n">>)>>),
    \* i'?ll\s+take\s+it
    Cat(<<Lit(<<"i">>), Opt(Lit(<<"'">>)), Lit(<<"l", "l">>), Plus(Cls("s")),
      Lit(<<"t", "a", "k", "e">>), Plus(Cls("s")), Lit(<<"i", "t">>)>>),
    \* let'?s\s+get\s+started
    Cat(<<Lit(<<"l", "e", "t">>), Opt(Lit(<<"'">>)), Lit(<<"s">>),
      Plus(Cls("s")), Lit(<<"g", "e", "t">>), Plus(Cls("s")), Lit(<<"s", "t",
      "a", "r", "t", "e", "d">>)>>),
    \* i'?m\s+interested
    Cat(<<Lit(<<"i">>), Opt(Lit(<<"'">>)), Lit(<<"m">>), Plus(Cls("s")),
      Lit(<<"i", "n", "t", "e", "r", "e", "s", "t", "e", "d">>)>>)
  >>

processor_positive_keywords ==
  <<
    <<"f", "a", "n", "t", "a", "s", "t", "i", "c">>,
    <<"s", "u", "p", "e", "r">>,
    <<"h", "e", "l", "p", "f", "u", "l">>,
    <<"e", "x", "c", "e", "l", "l", "e", "n", "t">>,
    <<"s", "a", "t", "i", "s", "f", "i", "e", "d">>,
    <<"o", "u", "t", "s", "t", "a", "n", "d", "i", "n", "g">>,
    <<"i", "m", "p", "r", "e", "s", "s", "e", "d">>,
    <<"g", "r", "e", "a", "t">>,
    <<"w", "o", "n", "d", "e", "r", "f", "u", "l">>,
    <<"a", "m", "a", "z", "i", "n", "g">>,
    <<"p", "e", "r", "f", "e", "c", "t">>,
    <<"l", "o", "v", "e">>,
    <<"a", "w", "e", "s", "o", "m", "e">>,
    <<"b", "r", "i", "l", "l", "i", "a", "n", "t">>,
    <<"s", "u", "p", "e", "r", "b">>,
    <<"t", "e", "r", "r", "i", "f", "i", "c">>,
    <<"m", "a", "r", "v", "e", "l", "o", "u", "s">>,
    <<"f", "a", "b", "u", "l", "o", "u", "s">>,
    <<"e", "x", "c", "e", "p", "t", "i", "o", "n", "a", "l">>,
    <<"i", "n", "c", "r", "e", "d", "i", "b", "l", "e">>
  >>

processor_negative_keywords ==
  <<
    <<"f", "r", "u", "s", "t", "r", "a", "t", "e", "d">>,
    <<"u", "n", "a", "c", "c", "e", "p", "t", "a", "b", "l", "e">>,
    <<"p", "o", "o", "r">>,
    <<"d", "i", "s", "a", "p", "p", "o", "i", "n", "t", "e", "d">>,
    <<"t", "e", "r", "r", "i", "b", "l", "e">>,
    <<"u", "n", "h", "a", "p", "p", "y">>,
    <<"r", "i", "d", "i", "c", "u", "l", "o", "u", "s">>,
    <<"u", "n", "s", "a", "t", "i", "s", "f", "i", "e", "d">>,
    <<"w", "a", "s", "t", "e">>,
    <<"u", "n", "p", "r", "o", "f", "e", "s", "s", "i", "o", "n", "a", "l">>,
    <<"a", "w", "f", "u", "l">>,
    <<"h", "o", "r", "r", "i", "b", "l", "e">>,
    <<"w", "o", "r", "s", "t">>,
    <<"h", "a", "t", "e">>,
    <<"d", "i", "s", "g", "u", "s", "t", "e", "d">>,
    <<"a", "n", "g", "r", "y">>,
    <<"f", "u", "r", "i", "o", "u", "s">>,
    <<"o", "u", "t", "r", "a", "g", "e", "d">>,
    <<"a", "p", "p", "a", "l", "l", "e", "d">>,
    <<"d", "i", "s", "g", "u", "s", "t", "i", "n", "g">>
  >>

\* The contractions of clean_transcript, in the order of the dict.
contractions ==
  <<
    [contraction |-> <<"i", "'", "l", "l">>, expansion |-> <<"i", " ", "w",
      "i", "l", "l">>],
    [contraction |-> <<"w", "e", "'", "l", "l">>, expansion |-> <<"w", "e",
      " ", "w", "i", "l", "l">>],
    [contraction |-> <<"y", "o", "u", "'", "l", "l">>, expansion |-> <<"y",
      "o", "u", " ", "w", "i", "l", "l">>],
    [contraction |-> <<"c", "a", "n", "'", "t">>, expansion |-> <<"c", "a",
      "n", "n", "o", "t">>],
    [contraction |-> <<"w", "o", "n", "'", "t">>, expansion |-> <<"w", "i",
      "l", "l", " ", "n", "o", "t">>],
    [contraction |-> <<"d", "o", "n", "'", "t">>, expansion |-> <<"d", "o",
      " ", "n", "o", "t">>],
    [contraction |-> <<"d", "o", "e", "s", "n", "'", "t">>, expansion |->
      <<"d", "o", "e", "s", " ", "n", "o", "t">>],
    [contraction |-> <<"i", "s", "n", "'", "t">>, expansion |-> <<"i", "s",
      " ", "n", "o", "t">>],
    [contraction |-> <<"a", "r", "e", "n", "'", "t">>, expansion |-> <<"a",
      "r", "e", " ", "n", "o", "t">>],
    [contraction |-> <<"w", "a", "s", "n", "'", "t">>, expansion |-> <<"w",
      "a", "s", " ", "n", "o", "t">>],
    [contraction |-> <<"w", "e", "r", "e", "n", "'", "t">>, expansion |->
      <<"w", "e", "r", "e", " ", "n", "o", "t">>],
    [contraction |-> <<"l", "e", "t", "'", "s">>, expansion |-> <<"l", "e",
      "t", " ", "u", "s">>]
  >>

\* CallDataGenerator.conversion_phrases
generator_conversion_phrases ==
  <<
    <<"Y", "e", "s", ",", " ", "I", "'", "l", "l", " ", "b", "o", "o", "k",
      " ", "t", "h", "a", "t", " ", "a", "p", "p", "o", "i", "n", "t", "m",
      "e", "n", "t">>,
    <<"S", "i", "g", "n", " ", "m", "e", " ", "u", "p", " ", "f", "o", "r",
      " ", "t", "h", "a", "t">>,
    <<"L", "e", "t", "'", "s", " ", "p", "r", "o", "c", "e", "e", "d", " ",
      "w", "i", "t", "h", " ", "t", "h", "e", " ", "p", "u", "r", "c", "h",
      "a", "s", "e">>,
    <<"I", "'", "d", " ", "l", "i", "k", "e", " ", "t", "o", " ", "m", "o",
      "v", "e", " ", "f", "o", "r", "w", "a", "r", "d">>,
    <<"T", "h", "a", "t", " ", "s", "o", "u", "n", "d", "s", " ", "p", "e",
      "r", "f", "e", "c", "t", ",", " ", "l", "e", "t", "'", "s", " ", "d",
      "o", " ", "i", "t">>,
    <<"I", "'", "m", " ", "r", "e", "a", "d", "y", " ", "t", "o", " ", "b",
      "u", "y">>,
    <<"C", "o", "u", "n", "t", " ", "m", "e", " ", "i", "n">>,
    <<"I", "'", "l", "l", " ", "t", "a", "k", "e", " ", "i", "t">>,
    <<"L", "e", "t", "'", "s", " ", "g", "e", "t", " ", "s", "t", "a", "r",
      "t", "e", "d">>,
    <<"P", "e", "r", "f", "e", "c", "t", ",", " ", "I", "'", "m", " ", "i",
      "n", "t", "e", "r", "e", "s", "t", "e", "d">>
  >>

\* test_transcript of test_etl_processing.
test_transcript ==
  <<"\n", " ", " ", " ", " ", " ", " ", " ", " ", "A", "g", "e", "n", "t",
    ":", " ", "H", "e", "l", "l", "o", ",", " ", "t", "h", "a", "n", "k", " ",
    "y", "o", "u", " ", "f", "o", "r", " ", "c", "a", "l", "l", "i", "n", "g",
    ".", " ", "H", "o", "w", " ", "c", "a", "n", " ", "I", " ", "h", "e", "l",
    "p", " ", "y", "o", "u", " ", "t", "o", "d", "a", "y", "?", "\n", " ",
    " ", " ", " ", " ", " ", " ", " ", "C", "u", "s", "t", "o", "m", "e", "r",
    ":", " ", "I", "'", "m", " ", "l", "o", "o", "k", "i", "n", "g", " ", "i",
    "n", "t", "o", " ", "y", "o", "u", "r", " ", "s", "e", "r", "v", "i", "c",
    "e", "s", ".", "\n", " ", " ", " ", " ", " ", " ", " ", " ", "A", "g",
    "e", "n", "t", ":", " ", "G", "r", "e", "a", "t", "!", " ", "S", "o", " ",
    "w", "o", "u", "l", "d", " ", "y", "o", "u", " ", "l", "i", "k", "e", " ",
    "t", "o", " ", "p", "r", "o", "c", "e", "e", "d", "?", "\n", " ", " ",
    " ", " ", " ", " ", " ", " ", "C", "u", "s", "t", "o", "m", "e", "r", ":",
    " ", "Y", "e", "s", ",", " ", "I", "'", "l", "l", " ", "b", "o", "o", "k",
    " ", "t", "h", "a", "t", " ", "a", "p", "p", "o", "i", "n", "t", "m", "e",
    "n", "t", ".", " ", "T", "h", "i", "s", " ", "i", "s", " ", "f", "a", "n",
    "t", "a", "s", "t", "i", "c", ".", "\n", " ", " ", " ", " ", " ", " ",
    " ", " ", "A", "g", "e", "n", "t", ":", " ", "E", "x", "c", "e", "l", "l",
    "e", "n", "t", "!", " ", "I", " ", "a", "l", "s", "o", " ", "h", "a", "v",
    "e", " ", "s", "o", "m", "e", " ", "a", "d", "d", "i", "t", "i", "o", "n",
    "a", "l", " ", "o", "p", "t", "i", "o", "n", "s", ".", "\n", " ", " ",
    " ", " ", " ", " ", " ", " ", "C", "u", "s", "t", "o", "m", "e", "r", ":",
    " ", "I", "'", "l", "l", " ", "t", "a", "k", "e", " ", "t", "h", "e", " ",
    "p", "r", "e", "m", "i", "u", "m", " ", "p", "a", "c", "k", "a", "g", "e",
    " ", "f", "o", "r", " ", "a", "n", " ", "e", "x", "t", "r", "a", " ", "$",
    "5", "0", ".", "\n", " ", " ", " ", " ", " ", " ", " ", " ">>
(***************************************************************************)
(* CallTranscriptProcessor of converza-pipeline/src/etl_processors.py: the  *)
(* upsell patterns and extract_upsell_amount, and the upsell statements the *)
(* data generator of that pipeline writes into transcripts.                 *)
(***************************************************************************)
\* upsell_patterns: for each, what precedes the group, and group 1 (\d+).
upsell_patterns ==
  <<
    \* premium\s+package\s+for\s+an?\s+extra\s+\$(\d+)
    [prefix |-> Cat(<<Lit(<<"p", "r", "e", "m", "i", "u", "m">>),
      Plus(Cls("s")), Lit(<<"p", "a", "c", "k", "a", "g", "e">>),
      Plus(Cls("s")), Lit(<<"f", "o", "r">>), Plus(Cls("s")), Lit(<<"a">>),
      Opt(Lit(<<"n">>)), Plus(Cls("s")), Lit(<<"e", "x", "t", "r", "a">>),
      Plus(Cls("s")), Lit(<<"$">>)>>), group |-> Plus(Cls("d"))],
    \* extended\s+warranty\s+for\s+\$(\d+)
    [prefix |-> Cat(<<Lit(<<"e", "x", "t", "e", "n", "d", "e", "d">>),
      Plus(Cls("s")), Lit(<<"w", "a", "r", "r", "a", "n", "t", "y">>),
      Plus(Cls("s")), Lit(<<"f", "o", "r">>), Plus(Cls("s")), Lit(<<"$">>)>>),
      group |-> Plus(Cls("d"))],
    \* premium\s+support\s+for\s+\$(\d+)
    [prefix |-> Cat(<<Lit(<<"p", "r", "e", "m", "i", "u", "m">>),
      Plus(Cls("s")), Lit(<<"s", "u", "p", "p", "o", "r", "t">>),
      Plus(Cls("s")), Lit(<<"f", "o", "r">>), Plus(Cls("s")), Lit(<<"$">>)>>),
      group |-> Plus(Cls("d"))],
    \* deluxe\s+version\s+for\s+\$(\d+)
    [prefix |-> Cat(<<Lit(<<"d", "e", "l", "u", "x", "e">>), Plus(Cls("s")),
      Lit(<<"v", "e", "r", "s", "i", "o", "n">>), Plus(Cls("s")), Lit(<<"f",
      "o", "r">>), Plus(Cls("s")), Lit(<<"$">>)>>), group |-> Plus(Cls("d"))],
    \* insurance\s+package\s+for\s+\$(\d+)
    [prefix |-> Cat(<<Lit(<<"i", "n", "s", "u", "r", "a", "n", "c", "e">>),
      Plus(Cls("s")), Lit(<<"p", "a", "c", "k", "a", "g", "e">>),
      Plus(Cls("s")), Lit(<<"f", "o", "r">>), Plus(Cls("s")), Lit(<<"$">>)>>),
      group |-> Plus(Cls("d"))],
    \* installation\s+service\s+for\s+\$(\d+)
    [prefix |-> Cat(<<Lit(<<"i", "n", "s", "t", "a", "l", "l", "a", "t", "i",
      "o", "n">>), Plus(Cls("s")), Lit(<<"s", "e", "r", "v", "i", "c", "e">>),
      Plus(Cls("s")), Lit(<<"f", "o", "r">>), Plus(Cls("s")), Lit(<<"$">>)>>),
      group |-> Plus(Cls("d"))],
    \* premium\s+features\s+for\s+\$(\d+)
    [prefix |-> Cat(<<Lit(<<"p", "r", "e", "m", "i", "u", "m">>),
      Plus(Cls("s")), Lit(<<"f", "e", "a", "t", "u", "r", "e", "s">>),
      Plus(Cls("s")), Lit(<<"f", "o", "r">>), Plus(Cls("s")), Lit(<<"$">>)>>),
      group |-> Plus(Cls("d"))],
    \* express\s+delivery\s+for\s+\$(\d+)
    [prefix |-> Cat(<<Lit(<<"e", "x", "p", "r", "e", "s", "s">>),
      Plus(Cls("s")), Lit(<<"d", "e", "l", "i", "v", "e", "r", "y">>),
      Plus(Cls("s")), Lit(<<"f", "o", "r">>), Plus(Cls("s")), Lit(<<"$">>)>>),
      group |-> Plus(Cls("d"))],
    \* maintenance\s+plan\s+for\s+\$(\d+)
    [prefix |-> Cat(<<Lit(<<"m", "a", "i", "n", "t", "e", "n", "a", "n", "c",
      "e">>), Plus(Cls("s")), Lit(<<"p", "l", "a", "n">>), Plus(Cls("s")),
      Lit(<<"f", "o", "r">>), Plus(Cls("s")), Lit(<<"$">>)>>), group |->
      Plus(Cls("d"))],
    \* professional\s+tier\s+for\s+\$(\d+)
    [prefix |-> Cat(<<Lit(<<"p", "r", "o", "f", "e", "s", "s", "i", "o", "n",
      "a", "l">>), Plus(Cls("s")), Lit(<<"t", "i", "e", "r">>),
      Plus(Cls("s")), Lit(<<"f", "o", "r">>), Plus(Cls("s")), Lit(<<"$">>)>>),
      group |-> Plus(Cls("d"))],
    \* upgrade.*?for\s+\$(\d+)
    [prefix |-> Cat(<<Lit(<<"u", "p", "g", "r", "a", "d", "e">>),
      LazyStar(Cls("any")), Lit(<<"f", "o", "r">>), Plus(Cls("s")),
      Lit(<<"$">>)>>), group |-> Plus(Cls("d"))],
    \* add.*?for\s+\$(\d+)
    [prefix |-> Cat(<<Lit(<<"a", "d", "d">>), LazyStar(Cls("any")), Lit(<<"f",
      "o", "r">>), Plus(Cls("s")), Lit(<<"$">>)>>), group |-> Plus(Cls("d"))]
  >>

\* CallDataGenerator.upsell_phrases, each with the amount it states.
upsell_phrases ==
  <<
    \* I'll take the premium package for an extra $50
    [text |-> <<"I", "'", "l", "l", " ", "t", "a", "k", "e", " ", "t", "h",
      "e", " ", "p", "r", "e", "m", "i", "u", "m", " ", "p", "a", "c", "k",
      "a", "g", "e", " ", "f", "o", "r", " ", "a", "n", " ", "e", "x", "t",
      "r", "a", " ", "$", "5", "0">>, amount |-> 50],
    \* Add the extended warranty for $25
    [text |-> <<"A", "d", "d", " ", "t", "h", "e", " ", "e", "x", "t", "e",
      "n", "d", "e", "d", " ", "w", "a", "r", "r", "a", "n", "t", "y", " ",
      "f", "o", "r", " ", "$", "2", "5">>, amount |-> 25],
    \* Include the premium support for $75
    [text |-> <<"I", "n", "c", "l", "u", "d", "e", " ", "t", "h", "e", " ",
      "p", "r", "e", "m", "i", "u", "m", " ", "s", "u", "p", "p", "o", "r",
      "t", " ", "f", "o", "r", " ", "$", "7", "5">>, amount |-> 75],
    \* I'll upgrade to the deluxe version for $100
    [text |-> <<"I", "'", "l", "l", " ", "u", "p", "g", "r", "a", "d", "e",
      " ", "t", "o", " ", "t", "h", "e", " ", "d", "e", "l", "u", "x", "e",
      " ", "v", "e", "r", "s", "i", "o", "n", " ", "f", "o", "r", " ", "$",
      "1", "0", "0">>, amount |-> 100],
    \* Add the insurance package for $30
    [text |-> <<"A", "d", "d", " ", "t", "h", "e", " ", "i", "n", "s", "u",
      "r", "a", "n", "c", "e", " ", "p", "a", "c", "k", "a", "g", "e", " ",
      "f", "o", "r", " ", "$", "3", "0">>, amount |-> 30],
    \* Include the installation service for $45
    [text |-> <<"I", "n", "c", "l", "u", "d", "e", " ", "t", "h", "e", " ",
      "i", "n", "s", "t", "a", "l", "l", "a", "t", "i", "o", "n", " ", "s",
      "e", "r", "v", "i", "c", "e", " ", "f", "o", "r", " ", "$", "4", "5">>,
      amount |-> 45],
    \* I want the premium features for $60
    [text |-> <<"I", " ", "w", "a", "n", "t", " ", "t", "h", "e", " ", "p",
      "r", "e", "m", "i", "u", "m", " ", "f", "e", "a", "t", "u", "r", "e",
      "s", " ", "f", "o", "r", " ", "$", "6", "0">>, amount |-> 60],
    \* Add the express delivery for $15
    [text |-> <<"A", "d", "d", " ", "t", "h", "e", " ", "e", "x", "p", "r",
      "e", "s", "s", " ", "d", "e", "l", "i", "v", "e", "r", "y", " ", "f",
      "o", "r", " ", "$", "1", "5">>, amount |-> 15],
    \* Include the maintenance plan for $80
    [text |-> <<"I", "n", "c", "l", "u", "d", "e", " ", "t", "h", "e", " ",
      "m", "a", "i", "n", "t", "e", "n", "a", "n", "c", "e", " ", "p", "l",
      "a", "n", " ", "f", "o", "r", " ", "$", "8", "0">>, amount |-> 80],
    \* Upgrade to professional tier for $120
    [text |-> <<"U", "p", "g", "r", "a", "d", "e", " ", "t", "o", " ", "p",
      "r", "o", "f", "e", "s", "s", "i", "o", "n", "a", "l", " ", "t", "i",
      "e", "r", " ", "f", "o", "r", " ", "$", "1", "2", "0">>, amount |-> 120]
  >>

\* The lines generate_call_transcript puts around the customer's statement.
UpsellOffer ==
  <<"A", "g", "e", "n", "t", ":", " ", "E", "x", "c", "e", "l", "l", "e", "n",
    "t", "!", " ", "I", " ", "a", "l", "s", "o", " ", "h", "a", "v", "e", " ",
    "s", "o", "m", "e", " ", "a", "d", "d", "i", "t", "i", "o", "n", "a", "l",
    " ", "o", "p", "t", "i", "o", "n", "s", " ", "t", "h", "a", "t", " ", "m",
    "i", "g", "h", "t", " ", "i", "n", "t", "e", "r", "e", "s", "t", " ", "y",
    "o", "u", ".">>

UpsellAccepted ==
  <<"A", "g", "e", "n", "t", ":", " ", "P", "e", "r", "f", "e", "c", "t", "!",
    " ", "I", "'", "l", "l", " ", "a", "d", "d", " ", "t", "h", "a", "t", " ",
    "t", "o", " ", "y", "o", "u", "r", " ", "o", "r", "d", "e", "r", ".">>

Proceed ==
  <<"A", "g", "e", "n", "t", ":", " ", "G", "r", "e", "a", "t", "!", " ", "S",
    "o", " ", "w", "o", "u", "l", "d", " ", "y", "o", "u", " ", "l", "i", "k",
    "e", " ", "t", "o", " ", "p", "r", "o", "c", "e", "e", "d", "?">>

CountMeIn ==
  <<"C", "u", "s", "t", "o", "m", "e", "r", ":", " ", "C", "o", "u", "n", "t",
    " ", "m", "e", " ", "i", "n", ".">>

TakeIt ==
  <<"C", "u", "s", "t", "o", "m", "e", "r", ":", " ", "I", "'", "l", "l", " ",
    "t", "a", "k", "e", " ", "i", "t", ".">>

CustomerSays ==
  <<"C", "u", "s", "t", "o", "m", "e", "r", ":", " ">>

\* The processor after __init__: its four attributes.
NewProcessor ==
  [conversion_patterns |-> processor_conversion_patterns,
   upsell_patterns |-> upsell_patterns,
   positive_keywords |-> processor_positive_keywords,
   negative_keywords |-> processor_negative_keywords]

\* total_upsell after the inner loop over matches: float(match) of each
\* match added up.  A match is a string of digits, so float never raises
\* and the sum of these whole numbers is exact.
RECURSIVE SumAmounts(_)
SumAmounts(matches) ==
  IF matches = <<>> THEN 0
  ELSE DigitsValue(Head(matches), 0) + SumAmounts(Tail(matches))

\* total_upsell after the loop over patterns k, k+1, ...: every match of
\* every pattern is added.
RECURSIVE TotalFrom(_, _, _)
TotalFrom(patterns, k, transcript_lower) ==
  IF k > Len(patterns) THEN 0
  ELSE SumAmounts(findall_group(patterns[k], transcript_lower))
       + TotalFrom(patterns, k + 1, transcript_lower)

\* extract_upsell_amount(self, transcript)
extract_upsell_amount(self, transcript) ==
  TotalFrom(self.upsell_patterns, 1, lower(transcript))

\* The transcripts: one upsell statement of the generator, said by the
\* customer, alone or after the agent's offer, before the agent's
\* confirmation, and after the closing exchange of a converted call.
Statement(k) == CustomerSays \o upsell_phrases[k].text \o <<".">>

Closings == {<<>>, <<Proceed, CountMeIn>>, <<Proceed, TakeIt>>}

GeneratedTranscripts ==
  {JoinSpace(closing \o offer \o <<Statement(k)>> \o accepted) :
     closing \in Closings, offer \in {<<>>, <<UpsellOffer>>},
     k \in DOMAIN upsell_phrases, accepted \in {<<>>, <<UpsellAccepted>>}}

ProcessorRecords ==
  {Identity @@ [transcript_text |-> t] : t \in GeneratedTranscripts}

(***************************************************************************)
(* The processor's state machine: engine holds the processor, call_data    *)
(* the record, upsell_result what extract_upsell_amount returned for the   *)
(* record's transcript.                                                    *)
(***************************************************************************)
ProcessorInit ==
  /\ engine = NewProcessor
  /\ call_data \in ProcessorRecords
  /\ conversion_result = NotCalled
  /\ upsell_result = NotCalled
  /\ sentiment_result = NotCalled
  /\ enriched_data = NotCalled

\* processor.extract_upsell_amount(call_data['transcript_text'])
ExtractUpsellAmount ==
  /\ engine' = engine
  /\ upsell_result' =
       Returned(extract_upsell_amount(engine, call_data.transcript_text))
  /\ UNCHANGED <<call_data, conversion_result, sentiment_result,
                 enriched_data>>

ProcessorNext == ExtractUpsellAmount

ProcessorSpec == ProcessorInit /\ [][ProcessorNext]_vars

\* C15: for a transcript that contains exactly one upsell statement of the
\* form the data generator emits ("... for $N", "for an extra $N"),
\* extract_upsell_amount returns exactly N: the stated amount is counted
\* once.
StatedAmountCountedOnce ==
  IsReturned(upsell_result) =>
    \A k \in DOMAIN upsell_phrases :
      Contains(call_data.transcript_text, upsell_phrases[k].text) =>
        upsell_result.value = upsell_phrases[k].amount


(***************************************************************************)
(* Contractions as negations.                                              *)
(***************************************************************************)
\* The negation words written with an apostrophe.
Contractions == {w \in negation_words : \E k \in DOMAIN w : w[k] = "'"}

\* The indices of the tokens that are sentiment keywords.
KeywordTokens(words) ==
  {i \in DOMAIN words :
     words[i] \in engine.positive_keywords \cup engine.negative_keywords}

\* text holds a contraction, one space and then the keyword.
ContractionBefore(text, keyword) ==
  \E c \in Contractions : Contains(text, c \o <<" ">> \o keyword)

\* The one keyword of words, standing right after a contraction in text, is
\* counted with the polarity opposite to its own.
ContractionFlips(result, text, words, hits) ==
  (/\ Cardinality(hits) = 1
   /\ \A i \in hits : ContractionBefore(text, words[i])) =>
    \A i \in hits :
      IF words[i] \in engine.positive_keywords
      THEN result.positive_count = 0 /\ result.negative_count = 1
      ELSE result.positive_count = 1 /\ result.negative_count = 0

\* C21: the contractions listed in negation_words ("don't", "can't", ...)
\* act as negations in analyze_sentiment: a sentiment keyword immediately
\* preceded by such a contraction in the transcript ("I don't love it") is
\* counted with flipped polarity.
ContractionsNegate ==
  (IsReturned(sentiment_result) /\ ~Falsy(Transcript)) =>
    ContractionFlips(sentiment_result.value, lower(Transcript), Tokens,
                     KeywordTokens(Tokens))

(***************************************************************************)
(* The sentiment label.                                                    *)
(***************************************************************************)
\* (positive_count - negative_count) / total, for total > 0.
Score(result) ==
  Frac(result.positive_count - result.negative_count,
       result.positive_count + result.negative_count)

LabelOfScore(sentiment, score) ==
  /\ sentiment = "positive" <=> FracLess(Frac(1, 5), score)
  /\ sentiment = "negative" <=> FracLess(score, Frac(-1, 5))
  /\ sentiment = "neutral" <=>
       (FracLeq(Frac(-1, 5), score) /\ FracLeq(score, Frac(1, 5)))

OneLabel(result) ==
  /\ result.sentiment \in {"positive", "negative", "neutral"}
  /\ IF result.positive_count + result.negative_count > 0
     THEN LabelOfScore(result.sentiment, Score(result))
     ELSE result.sentiment = "neutral"

\* C22: analyze_sentiment assigns exactly one label from positive, negative
\* and neutral: with total = positive_count + negative_count > 0 and score =
\* (positive_count - negative_count) / total the label is positive iff
\* score > 0.2, negative iff score < -0.2 and neutral otherwise (a score of
\* exactly 0.2 or -0.2 included); with total = 0 the label is neutral.
SentimentLabel ==
  IsReturned(sentiment_result) =>
    /\ OneLabel(sentiment_result.value)
    /\ Transcript = KeywordMix(3, 2) =>
         /\ sentiment_result.value.positive_count = 3
         /\ sentiment_result.value.negative_count = 2
         /\ sentiment_result.value.sentiment = "neutral"

\* Three positive hits and two negative ones, a score of exactly 0.2, have
\* been labelled.
ScoreAtThreshold ==
  /\ Transcript = KeywordMix(3, 2)
  /\ IsReturned(sentiment_result)
  /\ sentiment_result.value.positive_count = 3
  /\ sentiment_result.value.negative_count = 2

(***************************************************************************)
(* The sentiment confidence.                                               *)
(***************************************************************************)
Total(result) == result.positive_count + result.negative_count

\* min(total / 20, 1.0) for total >= 1, and 0.5 for total = 0.
ConfidenceOfTotal(total) ==
  IF total = 0 THEN Frac(1, 2)
  ELSE IF total >= SENTIMENT_SATURATION THEN Frac(1, 1)
  ELSE Frac(total, SENTIMENT_SATURATION)

ConfidenceFollowsTotal(result, total) ==
  /\ FracEq(result.confidence, ConfidenceOfTotal(total))
  /\ total >= SENTIMENT_SATURATION => FracEq(result.confidence, Frac(1, 1))
  /\ \A fewer \in 1..total :
       FracLeq(analyze_sentiment(engine, KeywordMix(fewer, 0)).confidence,
               result.confidence)

\* C23: the sentiment confidence is 0.5 when no sentiment keyword is found
\* (total = 0) and min(total / 20, 1.0) otherwise, so it is non-decreasing
\* in total for total >= 1 (no transcript with fewer hits, one at least, has
\* a greater confidence) and is 1.0 from 20 hits on.
SentimentConfidence ==
  IsReturned(sentiment_result) =>
    ConfidenceFollowsTotal(sentiment_result.value,
                           Total(sentiment_result.value))

\* A transcript with one hit more than saturates the confidence has been
\* analyzed.
ConfidenceSaturated ==
  /\ Transcript = KeywordMix(SENTIMENT_SATURATION + 1, 0)
  /\ IsReturned(sentiment_result)
  /\ Total(sentiment_result.value) = SENTIMENT_SATURATION + 1
  /\ FracEq(sentiment_result.value.confidence, Frac(1, 1))

(***************************************************************************)
(* The estimated duration of a call.                                       *)
(***************************************************************************)
\* (L / 5 / 150) * 60 in whole seconds.
SpeakingSeconds(L) == (L * 60) \div 750

\* The whole seconds of x * 1.2.
WithBuffer(x) == (x * 12) \div 10

\* (L / 5 / 150) * 60 * 1.2 in whole seconds, truncated once.
TruncatedOnce(L) == (L * 72) \div 750

DurationTruncatedTwice(record) ==
  /\ record.call_duration_seconds
       = WithBuffer(SpeakingSeconds(record.transcript_length))
  /\ record.call_duration_seconds
       \in {TruncatedOnce(record.transcript_length),
            TruncatedOnce(record.transcript_length) - 1}
  /\ record.transcript_length = 11 => record.call_duration_seconds = 0

LastWordEnd(s) ==
  CHOOSE k \in 0..Len(s) :
    /\ k = 0 \/ s[k] \notin SpaceSet
    /\ \A j \in (k + 1)..Len(s) : s[j] \in SpaceSet

JoinWords(s, last) ==
  Flatten([k \in DOMAIN s |->
             IF s[k] \notin SpaceSet THEN <<s[k]>>
             ELSE IF k > 1 /\ k < last /\ s[k - 1] \notin SpaceSet
               THEN <<" ">>
               ELSE <<>>],
          1, Len(s))

JoinSplit(s) == JoinWords(s, LastWordEnd(s))

\* The characters that r'[^\w\s\$\.\,\!\?\-\:\;]' does not match.
Kept(ch) ==
  ch \in WordSet \cup SpaceSet \cup {"$", ".", ",", "!", "?", "-", ":", ";"}

\* re.sub(r'[^\w\s\$\.\,\!\?\-\:\;]', ' ', cleaned)
BlankSpecials(s) == [k \in DOMAIN s |-> IF Kept(s[k]) THEN s[k] ELSE " "]

\* str.replace(old, new): the occurrences of old taken from the left, without
\* overlap.
RECURSIVE ReplaceFrom(_, _, _, _)

Occurrences(s, old, cursor) ==
  {i \in cursor..(Len(s) - Len(old) + 1) :
     SubSeq(s, i, i + Len(old) - 1) = old}

ReplaceHit(s, old, new, cursor, i) ==
  SubSeq(s, cursor, i - 1) \o new \o ReplaceFrom(s, old, new, i + Len(old))

ReplaceAt(s, old, new, cursor, hits) ==
  IF hits = {} THEN SubSeq(s, cursor, Len(s))
  ELSE ReplaceHit(s, old, new, cursor, Min(hits))

ReplaceFrom(s, old, new, cursor) ==
  ReplaceAt(s, old, new, cursor, Occurrences(s, old, cursor))

replace(s, old, new) == ReplaceFrom(s, old, new, 1)

\* The loop over contractions.items() (lines 94-95), from entry k on.
RECURSIVE ExpandFrom(_, _)
ExpandFrom(cleaned, k) ==
  IF k > Len(contractions) THEN cleaned
  ELSE ExpandFrom(replace(cleaned, contractions[k].contraction,
                          contractions[k].expansion),
                  k + 1)

\* clean_transcript(self, transcript)
clean_transcript(self, transcript) ==
  IF Falsy(transcript) THEN <<>>
  ELSE ExpandFrom(BlankSpecials(JoinSplit(lower(transcript))), 1)

\* CallTranscriptProcessor.detect_conversion(self, transcript): some pattern
\* is found in the lower-cased transcript.
ConversionFound(patterns, transcript_lower) ==
  \E k \in DOMAIN patterns : search(patterns[k], transcript_lower).found

processor_detect_conversion(self, transcript) ==
  ConversionFound(self.conversion_patterns, lower(transcript))

\* sum(1 for keyword in keywords if keyword in transcript_lower)
KeywordCount(keywords, transcript_lower) ==
  Cardinality({k \in DOMAIN keywords :
                 Contains(transcript_lower, keywords[k])})

SentimentOfCounts(positive_count, negative_count) ==
  IF positive_count > negative_count /\ positive_count > 0 THEN "Positive"
  ELSE IF negative_count > positive_count /\ negative_count > 0
    THEN "Negative"
    ELSE "Neutral"

SentimentIn(self, transcript_lower) ==
  SentimentOfCounts(KeywordCount(self.positive_keywords, transcript_lower),
                    KeywordCount(self.negative_keywords, transcript_lower))

\* CallTranscriptProcessor.analyze_sentiment(self, transcript)
processor_analyze_sentiment(self, transcript) ==
  SentimentIn(self, lower(transcript))

KpisOf(self, data, transcript) ==
  [call_id |-> Get(data, "call_id", None),
   agent_name |-> Get(data, "agent_name", None),
   timestamp |-> Get(data, "timestamp", None),
   cleaned_transcript |-> clean_transcript(self, transcript),
   is_conversion |-> processor_detect_conversion(self, transcript),
   upsell_amount |-> extract_upsell_amount(self, transcript),
   sentiment_score |-> processor_analyze_sentiment(self, transcript)]

\* extract_all_kpis(self, call_data)
extract_all_kpis(self, data) ==
  KpisOf(self, data, Get(data, "transcript_text", <<>>))

NewBatchProcessor == [processor |-> NewProcessor]

\* BatchProcessor.process_bronze_to_silver(self, bronze_calls)
process_bronze_to_silver(self, bronze_calls) ==
  [k \in DOMAIN bronze_calls |->
     [call_id |-> bronze_calls[k].call_id,
      agent_name |-> bronze_calls[k].agent_name,
      timestamp |-> bronze_calls[k].timestamp,
      cleaned_transcript |->
        clean_transcript(self.processor, bronze_calls[k].transcript_text)]]

GoldRecord(kpis) ==
  [call_id |-> kpis.call_id,
   agent_name |-> kpis.agent_name,
   timestamp |-> kpis.timestamp,
   is_conversion |-> kpis.is_conversion,
   upsell_amount |-> kpis.upsell_amount,
   sentiment_score |-> kpis.sentiment_score]

\* BatchProcessor.process_silver_to_gold(self, silver_calls)
process_silver_to_gold(self, silver_calls) ==
  [k \in DOMAIN silver_calls |->
     GoldRecord(extract_all_kpis(
       self.processor,
       [call_id |-> silver_calls[k].call_id,
        agent_name |-> silver_calls[k].agent_name,
        timestamp |-> silver_calls[k].timestamp,
        transcript_text |-> silver_calls[k].cleaned_transcript]))]

(***************************************************************************)
(* The two paths from a batch of raw call records to their KPIs.  engine   *)
(* holds the batch processor, call_data the bronze calls,                  *)
(* conversion_result the silver calls, enriched_data the gold records and  *)
(* upsell_result the KPIs extracted from the raw records directly.         *)
(***************************************************************************)
MaxCalls == 2

\* What a customer says to accept, as the data generator writes it; two of
\* its upsell statements; the transcript of test_etl_processing.
LayeredTranscripts ==
  {CustomerSays \o generator_conversion_phrases[k] \o <<".">> :
     k \in DOMAIN generator_conversion_phrases}
  \cup {Statement(1), Statement(4), test_transcript}

BronzeCalls ==
  UNION {[1..n -> {Identity @@ [transcript_text |-> t] :
                     t \in LayeredTranscripts}] : n \in 1..MaxCalls}

LayeredInit ==
  /\ engine = NewBatchProcessor
  /\ call_data \in BronzeCalls
  /\ conversion_result = NotCalled
  /\ upsell_result = NotCalled
  /\ sentiment_result = NotCalled
  /\ enriched_data = NotCalled

\* silver_calls = batch_processor.process_bronze_to_silver(bronze_calls)
ProcessBronzeToSilver ==
  /\ conversion_result = NotCalled
  /\ engine' = engine
  /\ conversion_result' = Returned(process_bronze_to_silver(engine, call_data))
  /\ UNCHANGED <<call_data, upsell_result, sentiment_result, enriched_data>>

\* gold_metrics = batch_processor.process_silver_to_gold(silver_calls)
ProcessSilverToGold ==
  /\ conversion_result # NotCalled
  /\ enriched_data = NotCalled
  /\ engine' = engine
  /\ enriched_data' =
       Returned(process_silver_to_gold(engine, conversion_result.value))
  /\ UNCHANGED <<call_data, conversion_result, upsell_result,
                 sentiment_result>>

\* processor.extract_all_kpis(call) for every raw record.
ExtractAllKpis ==
  /\ upsell_result = NotCalled
  /\ engine' = engine
  /\ upsell_result' =
       Returned([k \in DOMAIN call_data |->
                   extract_all_kpis(engine.processor, call_data[k])])
  /\ UNCHANGED <<call_data, conversion_result, sentiment_result,
                 enriched_data>>

LayeredNext ==
  \/ ProcessBronzeToSilver
  \/ ProcessSilverToGold
  \/ ExtractAllKpis

LayeredSpec == LayeredInit /\ [][LayeredNext]_vars

SameKpis(gold, direct) ==
  /\ gold.is_conversion = direct.is_conversion
  /\ gold.upsell_amount = direct.upsell_amount
  /\ gold.sentiment_score = direct.sentiment_score

\* C25: KPI extraction through the layered path equals direct extraction:
\* for every call record, process_silver_to_gold applied to the output of
\* process_bronze_to_silver reports the same is_conversion, upsell_amount
\* and sentiment_score as extract_all_kpis applied to the raw record.
LayeredEqualsDirect ==
  (IsReturned(enriched_data) /\ IsReturned(upsell_result)) =>
    \A k \in DOMAIN call_data :
      SameKpis(enriched_data.value[k], upsell_result.value[k])

(***************************************************************************)
(* Keyword matches after the first.                                        *)
(***************************************************************************)
\* The keyword matches that follow the first one and have an amount token
\* in the context cut out for them.
LaterPricedMatches(self, transcript) ==
  LET matches == KeywordMatches(self, lower(transcript))
  IN  {k \in DOMAIN matches :
         /\ k > 1
         /\ ContextAmounts(self, transcript, matches[k]) # <<>>}

RECURSIVE WithoutNegations(_)
WithoutNegations(words) ==
  IF words = <<>> THEN <<>>
  ELSE (IF Head(words) \in engine.negation_words THEN <<>>
        ELSE <<Head(words)>>)
       \o WithoutNegations(Tail(words))

\* The tokens of the transcript, without the negation words, as a text.
PlainTranscript == JoinSpace(WithoutNegations(Tokens))

\* The two counters add up to the number of keyword tokens; the confidence
\* is that of this number, and both are those of the plain text.
HitsAre(result, keywords, plain) ==
  /\ Total(result) = keywords
  /\ FracEq(result.confidence, ConfidenceOfTotal(keywords))
  /\ Total(plain) = keywords
  /\ FracEq(plain.confidence, result.confidence)

\* C29: positive_count + negative_count equals the number of word tokens
\* that belong to positive_keywords or negative_keywords: a negation only
\* moves a hit from one counter to the other, so the total and the
\* confidence are those of the transcript without its negation words; two
\* negation words before a keyword flip it once ("not never bad" counts one
\* positive hit and no negative one).
NegationKeepsTotal ==
  IsReturned(sentiment_result) =>
    /\ HitsAre(sentiment_result.value, Cardinality(KeywordTokens(Tokens)),
               analyze_sentiment(engine, PlainTranscript))
    /\ Transcript = ScenarioNotNeverBad =>
         /\ sentiment_result.value.positive_count = 1
         /\ sentiment_result.value.negative_count = 0
         /\ FracEq(sentiment_result.value.confidence,
                   Frac(1, SENTIMENT_SATURATION))

\* analyze_sentiment has returned for a keyword with two negation words
\* before it.
TwiceNegatedAnalyzed ==
  /\ Transcript = ScenarioNotNeverBad
  /\ IsReturned(sentiment_result)
  /\ Cardinality({i \in DOMAIN Tokens :
                    Tokens[i] \in engine.negation_words}) = 2
  /\ Total(sentiment_result.value) = 1

(***************************************************************************)
(* Timestamp texts handed to parse_timestamp, and for each of them the     *)
(* format of the list (1 to 4) under which datetime.strptime accepts it    *)
(* with the datetime it gives, as computed by Python 3.11; format 0 where   *)
(* strptime raises ValueError under all four.                              *)
(***************************************************************************)
TimestampTexts ==
  <<
    <<"2", "0", "2", "4", "-", "0", "1", "-", "1", "5", "T", "1", "0", ":", "3",
    "0", ":", "0", "0">>,
    <<"2", "0", "2", "4", "-", "0", "1", "-", "1", "5", " ", "1", "0", ":", "3",
    "0", ":", "0", "0">>,
    <<"2", "0", "2", "4", "-", "0", "1", "-", "1", "5", "T", "1", "0", ":", "3",
    "0", ":", "0", "0", ".", "5">>,
    <<"2", "0", "2", "4", "-", "0", "1", "-", "1", "5", " ", "1", "0", ":", "3",
    "0", ":", "0", "0", ".", "0", "0", "0", "0", "0", "1">>,
    <<"2", "0", "2", "4", "-", "1", "-", "5", "t", "3", ":", "4", ":", "5">>,
    <<"2", "0", "2", "4", "-", "0", "1", "-", "1", "5", " ", "\t", "1", "0",
    ":", "3", "0", ":", "0", "0">>,
    <<"2", "0", "2", "4", "-", "0", "1", "-", " ", "5", "T", "1", "0", ":", "3",
    "0", ":", "0", "0">>,
    <<"2", "0", "2", "4", "-", "0", "2", "-", "2", "9", "T", "2", "3", ":", "5",
    "9", ":", "5", "9">>,
    <<"2", "0", "2", "4", "-", "0", "1", "-", "1", "5", "T", "1", "0", ":", "3",
    "0", ":", "0", "0", "Z">>,
    <<"2", "0", "2", "3", "-", "0", "2", "-", "2", "9", "T", "1", "0", ":", "3",
    "0", ":", "0", "0">>,
    <<"2", "0", "2", "4", "-", "0", "1", "-", "1", "5", "T", "1", "0", ":", "3",
    "0", ":", "6", "0">>,
    <<"2", "0", "2", "4", "-", "0", "1", "-", "1", "5", "T", "1", "0", ":", "3",
    "0", ":", "7", "5">>,
    <<"2", "0", "2", "4", "-", "0", "1", "-", "1", "5">>,
    <<"2", "0", "2", "4", "-", "0", "1", "-", "1", "5", "T", "1", "0", ":", "3",
    "0", ":", "0", "0", ".", "1", "2", "3", "4", "5", "6", "7">>,
    <<"0", "0", "0", "0", "-", "0", "1", "-", "1", "5", "T", "1", "0", ":", "3",
    "0", ":", "0", "0">>,
    <<" ", "2", "0", "2", "4", "-", "0", "1", "-", "1", "5", "T", "1", "0", ":",
    "3", "0", ":", "0", "0">>,
    <<"1", "5", "/", "0", "1", "/", "2", "0", "2", "4", " ", "1", "0", ":", "3",
    "0">>
  >>

NoDatetime ==
  [year |-> 0, month |-> 0, day |-> 0, hour |-> 0, minute |-> 0,
   second |-> 0, microsecond |-> 0]

ParsedTimestamps ==
  <<
    [format |-> 1,
     datetime |->
       [year |-> 2024, month |-> 1, day |-> 15, hour |-> 10, minute |-> 30,
        second |-> 0, microsecond |-> 0]],
    [format |-> 2,
     datetime |->
       [year |-> 2024, month |-> 1, day |-> 15, hour |-> 10, minute |-> 30,
        second |-> 0, microsecond |-> 0]],
    [format |-> 3,
     datetime |->
       [year |-> 2024, month |-> 1, day |-> 15, hour |-> 10, minute |-> 30,
        second |-> 0, microsecond |-> 500000]],
    [format |-> 4,
     datetime |->
       [year |-> 2024, month |-> 1, day |-> 15, hour |-> 10, minute |-> 30,
        second |-> 0, microsecond |-> 1]],
    [format |-> 1,
     datetime |->
       [year |-> 2024, month |-> 1, day |-> 5, hour |-> 3, minute |-> 4,
        second |-> 5, microsecond |-> 0]],
    [format |-> 2,
     datetime |->
       [year |-> 2024, month |-> 1, day |-> 15, hour |-> 10, minute |-> 30,
        second |-> 0, microsecond |-> 0]],
    [format |-> 1,
     datetime |->
       [year |-> 2024, month |-> 1, day |-> 5, hour |-> 10, minute |-> 30,
        second |-> 0, microsecond |-> 0]],
    [format |-> 1,
     datetime |->
       [year |-> 2024, month |-> 2, day |-> 29, hour |-> 23, minute |-> 59,
        second |-> 59, microsecond |-> 0]],
    [format |-> 0, datetime |-> NoDatetime],
    [format |-> 0, datetime |-> NoDatetime],
    [format |-> 0, datetime |-> NoDatetime],
    [format |-> 0, datetime |-> NoDatetime],
    [format |-> 0, datetime |-> NoDatetime],
    [format |-> 0, datetime |-> NoDatetime],
    [format |-> 0, datetime |-> NoDatetime],
    [format |-> 0, datetime |-> NoDatetime],
    [format |-> 0, datetime |-> NoDatetime]
  >>

(***************************************************************************)
(* SilverLayer of silver_layer.py: clean_text, normalize_agent_name,       *)
(* parse_timestamp, estimate_call_duration, clean_record and process_batch, *)
(* and execute_batch_insert of database.py.                                *)
(***************************************************************************)
\* A value that is not a string (a number in the JSON of a call file).
Number == <<"Number">>

IsStr(value) == value # None /\ value # Number

\* None where a datetime or a dict is returned otherwise.
NoneObject == [none |-> TRUE]

\* The characters of the model that r'[\x00-\x1f\x7f-\x9f]' matches.
ControlSet == {"\t", "\n", "U+0001"}

\* re.sub(r'\s+', ' ', text)
CollapseSpace(text) ==
  Flatten([k \in DOMAIN text |->
             IF text[k] \notin SpaceSet THEN <<text[k]>>
             ELSE IF k = 1 \/ text[k - 1] \notin SpaceSet THEN <<" ">>
             ELSE <<>>],
          1, Len(text))

\* re.sub(r'[\x00-\x1f\x7f-\x9f]', '', text)
RemoveControl(text) ==
  Flatten([k \in DOMAIN text |->
             IF text[k] \in ControlSet THEN <<>> ELSE <<text[k]>>],
          1, Len(text))

\* Lines 52-53 as Python reads them: two replacements of '"' by '"', and one
\* replacement of the string between the two ''' of line 53 by "'".
QuotedCall ==
  <<",", " ", "\"", "'", "\"", ")", ".", "r", "e", "p", "l", "a", "c", "e",
    "(">>

NormalizeQuotes(text) ==
  replace(replace(replace(text, <<"\"">>, <<"\"">>), <<"\"">>, <<"\"">>),
          QuotedCall, <<"'">>)

\* clean_text(self, text), for a string or None.
clean_text(self, text) ==
  IF Falsy(text) THEN <<>>
  ELSE strip(NormalizeQuotes(RemoveControl(CollapseSpace(text))))

\* normalize_agent_name(self, agent_name), for a string or None.
normalize_agent_name(self, agent_name) ==
  IF Falsy(agent_name)
  THEN <<"U", "n", "k", "n", "o", "w", "n", " ", "A", "g", "e", "n", "t">>
  ELSE JoinSpace(CapitalizeAll(split(clean_text(self, agent_name))))

\* [lo-hi] for two digits lo <= hi.
DigitRange(lo, hi) ==
  Alt([k \in 1..(hi - lo + 1) |-> Lit(<<DigitChars[lo + k]>>)])

\* The regular expressions _strptime.TimeRE has for the directives.
Directive(d) ==
  CASE d = "%Y" -> Cat(<<Cls("d"), Cls("d"), Cls("d"), Cls("d")>>)
    [] d = "%m" -> Alt(<<Cat(<<Lit(<<"1">>), DigitRange(0, 2)>>),
                         Cat(<<Lit(<<"0">>), DigitRange(1, 9)>>),
                         DigitRange(1, 9)>>)
    [] d = "%d" -> Alt(<<Cat(<<Lit(<<"3">>), DigitRange(0, 1)>>),
                         Cat(<<DigitRange(1, 2), Cls("d")>>),
                         Cat(<<Lit(<<"0">>), DigitRange(1, 9)>>),
                         DigitRange(1, 9),
                         Cat(<<Lit(<<" ">>), DigitRange(1, 9)>>)>>)
    [] d = "%H" -> Alt(<<Cat(<<Lit(<<"2">>), DigitRange(0, 3)>>),
                         Cat(<<DigitRange(0, 1), Cls("d")>>),
                         Cls("d")>>)
    [] d = "%M" -> Alt(<<Cat(<<DigitRange(0, 5), Cls("d")>>), Cls("d")>>)
    [] d = "%S" -> Alt(<<Cat(<<Lit(<<"6">>), DigitRange(0, 1)>>),
                         Cat(<<DigitRange(0, 5), Cls("d")>>),
                         Cls("d")>>)
    [] d = "%f" -> Rep(Cls("d"), 1, 6)

Directives == {"%Y", "%m", "%d", "%H", "%M", "%S", "%f"}

\* The pattern of one item of a format: a directive, white space (which
\* strptime matches against r'\s+') or a literal character.
ItemPattern(item) ==
  IF item \in Directives THEN Directive(item)
  ELSE IF item = " " THEN Plus(Cls("s"))
  ELSE Lit(<<item>>)

DateItems == <<"%Y", "-", "%m", "-", "%d">>

TimeItems == <<"%H", ":", "%M", ":", "%S">>

\* The list of lines 95-100.
formats ==
  <<DateItems \o <<"T">> \o TimeItems,
    DateItems \o <<" ">> \o TimeItems,
    DateItems \o <<"T">> \o TimeItems \o <<".", "%f">>,
    DateItems \o <<" ">> \o TimeItems \o <<".", "%f">>>>

\* The match of the items format[k], format[k+1], ... from position i of s
\* that a backtracking matcher finds first: the end of each item, or
\* NoEnds.
NoEnds == <<-1>>

RECURSIVE MatchItems(_, _, _, _), MatchThrough(_, _, _, _, _)

MatchRest(format, k, s, candidates, j, rest) ==
  IF rest # NoEnds THEN <<candidates[j]>> \o rest
  ELSE MatchThrough(format, k, s, candidates, j + 1)

MatchThrough(format, k, s, candidates, j) ==
  IF j > Len(candidates) THEN NoEnds
  ELSE MatchRest(format, k, s, candidates, j,
                 MatchItems(format, k + 1, s, candidates[j]))

MatchItems(format, k, s, i) ==
  IF k > Len(format) THEN <<>>
  ELSE MatchThrough(format, k, s, Ends(ItemPattern(format[k]), s, i), 1)

\* int(text) for the text of a directive (digits, after a space in one
\* form of %d).
IntOf(text) == DigitsValue(strip(text), 0)

\* The text that the match gave to directive d of the format.
FieldText(format, s, ends, d) ==
  LET k == CHOOSE k \in DOMAIN format : format[k] = d
  IN  SubSeq(s, IF k = 1 THEN 1 ELSE ends[k - 1], ends[k] - 1)

Field(format, s, ends, d) == IntOf(FieldText(format, s, ends, d))

\* %f: the digits padded with zeros on the right to six.
Fraction(format, s, ends) ==
  IF \E k \in DOMAIN format : format[k] = "%f"
  THEN IntOf(FieldText(format, s, ends, "%f")
             \o [k \in 1..(6 - Len(FieldText(format, s, ends, "%f")))
                   |-> "0"])
  ELSE 0

IsLeap(year) ==
  year % 4 = 0 /\ (year % 100 # 0 \/ year % 400 = 0)

DaysIn(year, month) ==
  IF month = 2 THEN (IF IsLeap(year) THEN 29 ELSE 28)
  ELSE IF month \in {4, 6, 9, 11} THEN 30 ELSE 31

\* The datetime constructor: ValueError for a year 0, a day the month does
\* not have, or a second above 59.
Datetime(year, month, day, hour, minute, second, microsecond) ==
  IF year < 1 \/ day > DaysIn(year, month) \/ second > 59
  THEN Raised("ValueError")
  ELSE Returned([year |-> year, month |-> month, day |-> day,
                 hour |-> hour, minute |-> minute, second |-> second,
                 microsecond |-> microsecond])

StrptimeOf(format, s, ends) ==
  IF ends = NoEnds \/ ends[Len(ends)] # Len(s) + 1
  THEN Raised("ValueError")
  ELSE Datetime(Field(format, s, ends, "%Y"), Field(format, s, ends, "%m"),
                Field(format, s, ends, "%d"), Field(format, s, ends, "%H"),
                Field(format, s, ends, "%M"), Field(format, s, ends, "%S"),
                Fraction(format, s, ends))

\* datetime.strptime(s, format)
strptime(s, format) == StrptimeOf(format, s, MatchItems(format, 1, s, 1))

\* The loop of lines 102-106 over the formats from number k on.
RECURSIVE ParseFrom(_, _)

ParseNext(timestamp_str, k, parsed) ==
  IF parsed.status = "returned" THEN parsed.value
  ELSE ParseFrom(timestamp_str, k + 1)

ParseFrom(timestamp_str, k) ==
  IF k > Len(formats) THEN NoneObject
  ELSE ParseNext(timestamp_str, k, strptime(timestamp_str, formats[k]))

\* parse_timestamp(self, timestamp_str), for a string or None.
parse_timestamp(self, timestamp_str) ==
  IF Falsy(timestamp_str) THEN NoneObject ELSE ParseFrom(timestamp_str, 1)

\* estimate_call_duration(self, transcript): int((word_count / 150) * 1.3 *
\* 60), which is floor(word_count * 78 / 150) for the word counts of the
\* model.
silver_estimate_call_duration(self, transcript) ==
  IF Falsy(transcript) THEN 0 ELSE (Len(split(transcript)) * 78) \div 150

CALL_ID_LIMIT == 50

AGENT_NAME_LIMIT == 100

\* A variant of CleanedRecord that stores the call_id as it came.
CleanedRecordWholeId(self, call_id, agent_name, call_timestamp, transcript_text) ==
  [call_id |-> call_id,
   agent_name |-> Slice(agent_name, 0, AGENT_NAME_LIMIT),
   call_timestamp |-> call_timestamp,
   transcript_text |-> transcript_text,
   transcript_length |-> Len(transcript_text),
   call_duration_seconds |->
     silver_estimate_call_duration(self, transcript_text)]

\* Lines 165-182: the cleaned record.
CleanedRecord(self, call_id, agent_name, call_timestamp, transcript_text) ==
  [call_id |-> Slice(call_id, 0, CALL_ID_LIMIT),
   agent_name |-> Slice(agent_name, 0, AGENT_NAME_LIMIT),
   call_timestamp |-> call_timestamp,
   transcript_text |-> transcript_text,
   transcript_length |-> Len(transcript_text),
   call_duration_seconds |->
     silver_estimate_call_duration(self, transcript_text)]

\* Lines 152-163 for a record whose call_id and agent_name raise nothing.
CleanChecked(self, call_id, agent_name, call_timestamp, transcript_text) ==
  IF call_id = <<>> THEN NoneObject
  ELSE IF call_timestamp = NoneObject THEN NoneObject
  ELSE IF transcript_text = <<>> THEN NoneObject
  ELSE CleanedRecord(self, call_id, agent_name, call_timestamp,
                     transcript_text)

\* clean_record(self, raw_record).  A call_id that is not a string has no
\* strip (AttributeError), an agent_name or transcript that is a number
\* makes re.sub raise TypeError, and so does strptime for a timestamp:
\* line 187 catches them all and None is returned.
clean_record(self, raw_record) ==
  IF \/ ~IsStr(Get(raw_record, "call_id", <<>>))
     \/ Get(raw_record, "agent_name", <<>>) = Number
     \/ Get(raw_record, "timestamp", <<>>) = Number
     \/ Get(raw_record, "transcript_text", <<>>) = Number
  THEN NoneObject
  ELSE CleanChecked(self, strip(Get(raw_record, "call_id", <<>>)),
                    normalize_agent_name(self,
                                         Get(raw_record, "agent_name", <<>>)),
                    parse_timestamp(self, Get(raw_record, "timestamp", <<>>)),
                    clean_text(self,
                               Get(raw_record, "transcript_text", <<>>)))

\* The two tables of the schema this model follows, each the list of its
\* rows.  silver_call_records has the primary key call_id;
\* gold_call_analytics has the primary key call_id, which references
\* silver_call_records (database.py, lines 87-96 and 115-133).
EmptyDatabase == [silver_call_records |-> <<>>, gold_call_analytics |-> <<>>]

CallIds(rows) == {rows[k].call_id : k \in DOMAIN rows}

\* A variant of InsertFrom without a primary key: every row is added.
InsertAll(rows, data, k) == rows \o SubSeq(data, k, Len(data))

\* INSERT ... VALUES ... ON CONFLICT DO NOTHING of data[k], data[k+1], ...:
\* a row whose call_id the table has, or got from an earlier row of the
\* statement, is skipped.
RECURSIVE InsertFrom(_, _, _)
InsertFrom(rows, data, k) ==
  IF k > Len(data) THEN rows
  ELSE InsertFrom(IF data[k].call_id \in CallIds(rows) THEN rows
                  ELSE Append(rows, data[k]),
                  data, k + 1)

\* The foreign key of gold_call_analytics is violated by the statement.
ViolatesForeignKey(db, table, data) ==
  /\ table = "gold_call_analytics"
  /\ \E k \in DOMAIN data :
       /\ data[k].call_id \notin CallIds(db.gold_call_analytics)
       /\ data[k].call_id \notin CallIds(db.silver_call_records)

Inserted(db, table, rows) ==
  [db |-> [db EXCEPT ![table] = rows],
   rowcount |-> Len(rows) - Len(db[table])]

\* execute_batch_insert(self, table, data): the database and the row count
\* after the statement, which get_connection commits; a violated foreign
\* key raises, and get_connection rolls back.
execute_batch_insert(db, table, data) ==
  IF data = <<>> THEN Returned([db |-> db, rowcount |-> 0])
  ELSE IF ViolatesForeignKey(db, table, data)
  THEN Raised("IntegrityError")
  ELSE Returned(Inserted(db, table, InsertFrom(db[table], data, 1)))

NewSilverLayer == [processed_count |-> 0, error_count |-> 0]

IsCleaned(cleaned) == cleaned # NoneObject

\* The loop of lines 203-208: the cleaned records, in order, and the number
\* of records that gave none.
CleanedRecords(self, records) ==
  SelectSeq([k \in DOMAIN records |-> clean_record(self, records[k])],
            IsCleaned)

ErrorsIn(self, records) ==
  Cardinality({k \in DOMAIN records : clean_record(self, records[k]) = NoneObject})

\* Lines 210-222 for the cleaned records and the outcome of the insert.
BatchStored(self, db, errors, cleaned_records, stored) ==
  IF cleaned_records = <<>>
  THEN [self |-> [self EXCEPT !.error_count = @ + errors], db |-> db,
        passed |-> NotCalled, result |-> Returned(0)]
  ELSE IF stored.status = "raised"
  THEN [self |-> [self EXCEPT !.error_count = @ + errors], db |-> db,
        passed |-> Returned(cleaned_records),
        result |-> Raised(stored.exception)]
  ELSE [self |-> [self EXCEPT !.error_count = @ + errors,
                              !.processed_count = @ + stored.value.rowcount],
        db |-> stored.value.db,
        passed |-> Returned(cleaned_records),
        result |-> Returned(stored.value.rowcount)]

BatchCleaned(self, db, errors, cleaned_records) ==
  BatchStored(self, db, errors, cleaned_records,
              execute_batch_insert(db, "silver_call_records",
                                   cleaned_records))

\* process_batch(self, records): the SilverLayer object and the database
\* afterwards, the list passed to execute_batch_insert (if it was called)
\* and the value returned.
process_batch(self, db, records) ==
  BatchCleaned(self, db, ErrorsIn(self, records),
               CleanedRecords(self, records))

\* datetime comparison.
DatetimeKey(d) ==
  <<d.year, d.month, d.day, d.hour, d.minute, d.second, d.microsecond>>

Earlier(a, b) ==
  \E k \in 1..7 :
    /\ DatetimeKey(a)[k] < DatetimeKey(b)[k]
    /\ \A j \in 1..(k - 1) : DatetimeKey(a)[j] = DatetimeKey(b)[j]

\* The silver rows without a gold row.
Unprocessed(db) ==
  {s \in Range(db.silver_call_records) :
     s.call_id \notin CallIds(db.gold_call_analytics)}

\* get_unprocessed_calls(self, limit): the lists the query can return, the
\* unprocessed rows with the latest call_timestamp, latest first, limit of
\* them at most; rows of equal timestamp come in any order.
LatestFirst(rows, n) ==
  {q \in [1..n -> rows] :
     /\ \A i, j \in 1..n : i < j =>
          /\ q[i] # q[j]
          /\ ~Earlier(q[i].call_timestamp, q[j].call_timestamp)
     /\ \A row \in rows : (\A i \in 1..n : q[i] # row) =>
          \A i \in 1..n : ~Earlier(q[i].call_timestamp, row.call_timestamp)}

get_unprocessed_calls(db, limit) ==
  LatestFirst(Unprocessed(db),
              IF Cardinality(Unprocessed(db)) < limit
              THEN Cardinality(Unprocessed(db)) ELSE limit)

(***************************************************************************)
(* One SilverLayer object and its database: engine is the object,          *)
(* call_data the batch given to process_batch, conversion_result the       *)
(* database, enriched_data the list process_batch passed to                *)
(* execute_batch_insert, upsell_result what process_batch returned and     *)
(* sentiment_result what get_unprocessed_calls returned.                   *)
(***************************************************************************)
MaxBatch == 2

GoodId == <<"c", "1">>

OtherId == <<"c", "2">>

\* Fifty characters, and fifty-one with the same first fifty.
FiftyId == [k \in 1..CALL_ID_LIMIT |-> "k"]

LongId == FiftyId \o <<"z">>

CallIdValues ==
  {None, Number, <<>>, <<" ", "\t">>, GoodId, <<" ">> \o GoodId \o <<"\n">>,
   OtherId, FiftyId, LongId}

TimestampValues == {None, <<>>} \cup Range(TimestampTexts)

TranscriptValues ==
  {None, Number, <<>>, <<" ", "\n", " ">>, <<"U+0001">>, <<"o", "k">>,
   <<" ", "w", "e", "l", "l", " ", "\t", "d", "o", "n", "e", "U+0001", "\n">>}

AgentValues == {None, Number, <<"j", "a", "n", "e", " ", " ", "d", "O", "E">>}

GoodRecord ==
  [call_id |-> GoodId, agent_name |-> <<"j", "a", "n", "e">>,
   timestamp |-> TimestampTexts[1], transcript_text |-> <<"o", "k">>]

\* d without the key.
Without(d, key) == [k \in DOMAIN d \ {key} |-> d[k]]

\* The good record with one field replaced or missing.
FieldVariants(key, values) ==
  {[GoodRecord EXCEPT ![key] = v] : v \in values}
  \cup {Without(GoodRecord, key)}

\* A record that fails every check.
BadRecord ==
  [call_id |-> <<" ">>, agent_name |-> <<>>, timestamp |-> TimestampTexts[9],
   transcript_text |-> <<>>]

RawRecords ==
  FieldVariants("call_id", CallIdValues)
  \cup FieldVariants("timestamp", TimestampValues)
  \cup FieldVariants("transcript_text", TranscriptValues)
  \cup FieldVariants("agent_name", AgentValues)
  \cup {BadRecord}

\* The records that follow the first record of a batch.
CoreRecords ==
  {GoodRecord, [GoodRecord EXCEPT !.call_id = OtherId],
   [GoodRecord EXCEPT !.call_id = LongId],
   [GoodRecord EXCEPT !.transcript_text = <<" ">>],
   [GoodRecord EXCEPT !.timestamp = TimestampTexts[11]]}

RECURSIVE BatchesOf(_)
BatchesOf(n) ==
  IF n = 1 THEN {<<r>> : r \in RawRecords}
  ELSE {Append(b, r) : b \in BatchesOf(n - 1), r \in CoreRecords}

Batches == UNION {BatchesOf(n) : n \in 1..MaxBatch}

\* A database that already has a row for the call_id of the good record.
StoredRow ==
  [call_id |-> GoodId, agent_name |-> <<"A", "n", "n">>,
   call_timestamp |-> ParsedTimestamps[8].datetime,
   transcript_text |-> <<"h", "i">>, transcript_length |-> 2,
   call_duration_seconds |-> 0]

SilverDatabases ==
  {EmptyDatabase, [EmptyDatabase EXCEPT !.silver_call_records = <<StoredRow>>]}

SilverInit ==
  /\ engine = NewSilverLayer
  /\ call_data = <<>>
  /\ conversion_result \in SilverDatabases
  /\ enriched_data = NotCalled
  /\ upsell_result = NotCalled
  /\ sentiment_result = NotCalled

ProcessBatchDone(records, done) ==
  /\ engine' = done.self
  /\ call_data' = records
  /\ conversion_result' = done.db
  /\ enriched_data' = done.passed
  /\ upsell_result' = done.result
  /\ UNCHANGED sentiment_result

\* silver.process_batch(records)
ProcessBatch ==
  /\ upsell_result = NotCalled
  /\ \E records \in Batches :
       ProcessBatchDone(records,
                        process_batch(engine, conversion_result, records))

\* silver.get_unprocessed_calls(limit)
GetUnprocessedCalls ==
  /\ sentiment_result = NotCalled
  /\ \E limit \in 1..MaxBatch :
       \E rows \in get_unprocessed_calls(conversion_result, limit) :
         sentiment_result' = Returned(rows)
  /\ UNCHANGED <<engine, call_data, conversion_result, enriched_data,
                 upsell_result>>

SilverNext == ProcessBatch \/ GetUnprocessedCalls

SilverSpec == SilverInit /\ [][SilverNext]_vars

(***************************************************************************)
(* What process_batch lets through.                                        *)
(***************************************************************************)
\* The list process_batch passed to execute_batch_insert (none when it did
\* not call it).
PassedRecords ==
  IF IsReturned(enriched_data) THEN enriched_data.value ELSE <<>>

\* What the four formats make of the timestamp of a raw record, by the table
\* of parsed timestamps: a datetime, or NoDatetime.
TableDatetime(timestamp) ==
  IF \E i \in DOMAIN TimestampTexts :
       TimestampTexts[i] = timestamp /\ ParsedTimestamps[i].format # 0
  THEN ParsedTimestamps[CHOOSE i \in DOMAIN TimestampTexts :
                          TimestampTexts[i] = timestamp].datetime
  ELSE NoDatetime

\* text is a string with a character that is neither white space nor a
\* control character.
HasContent(text) ==
  /\ IsStr(text)
  /\ \E k \in DOMAIN text : text[k] \notin SpaceSet \cup ControlSet

\* The raw record passes the checks of clean_record: a call_id and a
\* transcript with content, and a timestamp one of the formats accepts (and
\* no field that is a number).
PassesChecks(raw) ==
  /\ HasContent(Get(raw, "call_id", <<>>))
  /\ HasContent(Get(raw, "transcript_text", <<>>))
  /\ TableDatetime(Get(raw, "timestamp", <<>>)) # NoDatetime
  /\ Get(raw, "agent_name", <<>>) # Number

\* The raw record has a call_id of more than 50 characters.
HasLongId(raw) ==
  /\ IsStr(Get(raw, "call_id", <<>>))
  /\ Len(strip(Get(raw, "call_id", <<>>))) > CALL_ID_LIMIT

\* What is passed on has an id of 1 to 50 characters, a datetime of the
\* table and a transcript with content.
WellFormed(cleaned) ==
  /\ cleaned.call_id # <<>>
  /\ Len(cleaned.call_id) <= CALL_ID_LIMIT
  /\ \E i \in DOMAIN ParsedTimestamps :
       /\ ParsedTimestamps[i].format \in 1..4
       /\ ParsedTimestamps[i].datetime = cleaned.call_timestamp
  /\ cleaned.transcript_text # <<>>
  /\ cleaned.transcript_length = Len(cleaned.transcript_text)

\* The records of the batch that were to be passed on, in order, are the
\* ones passed on: each with the start of its id and its datetime.
PassedAre(passed, raws) ==
  /\ Len(passed) = Len(raws)
  /\ \A k \in DOMAIN raws :
       /\ passed[k].call_id
            = SubSeq(strip(raws[k].call_id), 1,
                     IF HasLongId(raws[k]) THEN CALL_ID_LIMIT
                     ELSE Len(strip(raws[k].call_id)))
       /\ passed[k].call_timestamp = TableDatetime(raws[k].timestamp)

\* C30: every record process_batch passes to the silver insert has a
\* non-empty call_id of at most 50 characters, a timestamp parsed by one of
\* the four formats and a non-empty cleaned transcript; a raw record without
\* a call_id, without a timestamp the formats accept or without a transcript
\* that is non-empty when cleaned is not passed on and adds exactly one to
\* error_count, and the other records of the batch are passed on all the
\* same.  A call_id of more than 50 characters is no failure: the record is
\* passed on with the first 50 characters as its call_id.
SilverBatchChecked ==
  IsReturned(upsell_result) =>
    /\ \A k \in DOMAIN PassedRecords : WellFormed(PassedRecords[k])
    /\ PassedAre(PassedRecords, SelectSeq(call_data, PassesChecks))
    /\ engine.error_count
         = Cardinality({k \in DOMAIN call_data : ~PassesChecks(call_data[k])})
    /\ CallIds(PassedRecords)
         \subseteq CallIds(conversion_result.silver_call_records)

\* C30 as stated, with the length of the call_id among the checks a raw
\* record can fail: a record whose call_id has more than 50 characters is
\* not passed on and counts as an error.
LongIdsRejected ==
  IsReturned(upsell_result) =>
    engine.error_count
      = Cardinality({k \in DOMAIN call_data :
                       ~PassesChecks(call_data[k]) \/ HasLongId(call_data[k])})

\* process_batch has returned for a batch of a record that fails every
\* check and a record with a call_id of 51 characters: one error, and one
\* record passed on, under the first 50 characters.
MixedBatchProcessed ==
  /\ IsReturned(upsell_result)
  /\ Len(call_data) = 2
  /\ call_data[1] = BadRecord
  /\ HasLongId(call_data[2])
  /\ engine.error_count = 1
  /\ Len(PassedRecords) = 1
  /\ PassedRecords[1].call_id = FiftyId

(***************************************************************************)
(* BronzeLayer of bronze_layer.py, GoldLayer.process_call_analytics of     *)
(* gold_layer.py and the runs of ETLPipeline of etl_pipeline.py.           *)
(***************************************************************************)
\* The body of a file that is not JSON, or not a JSON object.
NotJson == [not_json |-> TRUE]

EndsWith(s, suffix) ==
  /\ Len(s) >= Len(suffix)
  /\ SubSeq(s, Len(s) - Len(suffix) + 1, Len(s)) = suffix

DotJson == <<".", "j", "s", "o", "n">>

\* list_available_files(self, max_files): the keys of the one page that
\* list_objects_v2 returns that end in '.json', and of these the first
\* max_files.
list_available_files(bucket, max_files) ==
  Slice(SelectSeq(bucket, LAMBDA file : EndsWith(file.key, DotJson)), 0,
        max_files)

\* Lines 113-121 of fetch_batch: the record yielded for a file.
Fetched(file) ==
  [k \in DOMAIN file.body \cup {"source_file", "ingestion_timestamp"} |->
     IF k = "source_file" THEN file.key
     ELSE IF k = "ingestion_timestamp"
     THEN Get(file.body, "timestamp", None)
     ELSE file.body[k]]

\* fetch_batch(self, batch_size): a file whose content does not parse is
\* logged and left out.
fetch_batch(bucket, batch_size) ==
  LET files == SelectSeq(list_available_files(bucket, batch_size),
                         LAMBDA file : file.body # NotJson)
  IN  [k \in DOMAIN files |-> Fetched(files[k])]

required_fields == {"call_id", "agent_name", "timestamp", "transcript_text"}

\* validate_record(self, record)
validate_record(record) ==
  \A field \in required_fields :
    field \in DOMAIN record /\ record[field] # None

\* _process_bronze_layer(self, batch_size): the raw records, and what is
\* added to the two counters of stats.
process_bronze_layer(bucket, batch_size) ==
  LET fetched == fetch_batch(bucket, batch_size)
      raw_records == SelectSeq(fetched, validate_record)
  IN  [raw_records |-> raw_records,
       bronze_records_fetched |-> Len(raw_records),
       errors |-> Len(fetched) - Len(raw_records)]

SILVER_BATCH == 50

\* _process_silver_layer(self, raw_records), for the batches from offset i
\* on: the database afterwards and the number of rows inserted.
RECURSIVE SilverFrom(_, _, _, _)

SilverAfter(silver, raw_records, i, done) ==
  IF done.result.status = "raised" THEN Raised(done.result.exception)
  ELSE SilverFrom(done.self, done.db, raw_records, i + SILVER_BATCH)

SilverFrom(silver, db, raw_records, i) ==
  IF i >= Len(raw_records) THEN Returned([db |-> db, silver |-> silver])
  ELSE SilverAfter(silver, raw_records, i,
                   process_batch(silver, db,
                                 Slice(raw_records, i, i + SILVER_BATCH)))

process_silver_layer(db, raw_records) ==
  SilverFrom(NewSilverLayer, db, raw_records, 0)

\* The loop of process_call_analytics (lines 45-63): the enriched record of
\* a silver row, with the length and duration of the row.
Analytics(record) ==
  LET enriched ==
        transform_call_record(NewEngine,
                              [call_id |-> record.call_id,
                               agent_name |-> record.agent_name,
                               timestamp |-> record.call_timestamp,
                               transcript_text |-> record.transcript_text])
  IN  [enriched.value EXCEPT
         !.transcript_length = record.transcript_length,
         !.call_duration_seconds = record.call_duration_seconds]

\* process_call_analytics(self, silver_records): the outcome of the insert
\* of the analytics records (the summary tables it then refreshes are not
\* part of this model).
process_call_analytics(db, silver_records) ==
  execute_batch_insert(db, "gold_call_analytics",
                       [k \in DOMAIN silver_records |->
                          Analytics(silver_records[k])])

GOLD_LIMIT == 100

INCREMENTAL_LIMIT == 50

(***************************************************************************)
(* Pipeline runs over one bucket and one database.  call_data is the       *)
(* bucket (its files in key order), engine the batch_size the runs are     *)
(* given, conversion_result the database; for each run, upsell_result has  *)
(* where it stands, sentiment_result its local variables raw_records and   *)
(* unprocessed, and enriched_data the stats of its pipeline object.  A run *)
(* takes one step per access to the bucket or the database, so that runs   *)
(* overlap.                                                                *)
(***************************************************************************)
MaxRuns == 2

MaxBatchSize == 2

Runs == 1..MaxRuns

FileA ==
  [key |-> <<"a">> \o DotJson, body |-> GoodRecord]

FileB ==
  [key |-> <<"b">> \o DotJson, body |-> NotJson]

FileC ==
  [key |-> <<"c">> \o DotJson,
   body |-> [GoodRecord EXCEPT !.call_id = OtherId,
                               !.timestamp = TimestampTexts[8]]]

FileD ==
  [key |-> <<"d">> \o DotJson, body |-> Without(GoodRecord, "agent_name")]

FileE ==
  [key |-> <<"e", ".", "t", "x", "t">>, body |-> NotJson]

AllFiles == <<FileA, FileB, FileC, FileD, FileE>>

\* The buckets: the files of a set of positions of AllFiles, in key order.
BucketOf(positions) ==
  SelectSeq([k \in DOMAIN AllFiles |->
               IF k \in positions THEN AllFiles[k] ELSE NotJson],
            LAMBDA file : file # NotJson)

\* The empty bucket, one file, the two valid files, the two valid files with
\* the unreadable one between them, and buckets that also have the invalid
\* record and the text file.
BucketPositions ==
  {{}, {1}, {1, 3}, {1, 2, 3}, {1, 3, 4, 5}, DOMAIN AllFiles}

Buckets == {BucketOf(positions) : positions \in BucketPositions}

NewStats ==
  [bronze_records_fetched |-> 0, silver_records_processed |-> 0,
   gold_records_created |-> 0, errors |-> 0]

NoLocals == [raw_records |-> <<>>, unprocessed |-> <<>>]

PipelineInit ==
  /\ engine \in [batch_size : 1..MaxBatchSize]
  /\ call_data \in Buckets
  /\ conversion_result = EmptyDatabase
  /\ upsell_result = [r \in Runs |-> [pc |-> "idle", kind |-> "none"]]
  /\ sentiment_result = [r \in Runs |-> NoLocals]
  /\ enriched_data = [r \in Runs |-> NewStats]

AtRest(r) == upsell_result[r].pc \in {"idle", "done"}

BronzeDone(r, bronze) ==
  /\ upsell_result' =
       [upsell_result EXCEPT ![r] = [pc |-> "silver", kind |-> "full"]]
  /\ sentiment_result' =
       [sentiment_result EXCEPT
          ![r] = [raw_records |-> bronze.raw_records, unprocessed |-> <<>>]]
  /\ enriched_data' =
       [enriched_data EXCEPT
          ![r] = [NewStats EXCEPT
                    !.bronze_records_fetched = bronze.bronze_records_fetched,
                    !.errors = bronze.errors]]
  /\ UNCHANGED <<engine, call_data, conversion_result>>

\* A new pipeline object starts run_full_pipeline(batch_size) with
\* _process_bronze_layer.
ProcessBronzeLayer(r) ==
  /\ AtRest(r)
  /\ BronzeDone(r, process_bronze_layer(call_data, engine.batch_size))

SilverDone(r, done) ==
  IF done.status = "raised"
  THEN /\ upsell_result' = [upsell_result EXCEPT ![r].pc = "done"]
       /\ enriched_data' = [enriched_data EXCEPT ![r].errors = @ + 1]
       /\ UNCHANGED <<engine, call_data, conversion_result, sentiment_result>>
  ELSE /\ upsell_result' = [upsell_result EXCEPT ![r].pc = "gold"]
       /\ conversion_result' = done.value.db
       /\ enriched_data' =
            [enriched_data EXCEPT
               ![r].silver_records_processed =
                 IF sentiment_result[r].raw_records = <<>> THEN @
                 ELSE done.value.silver.processed_count]
       /\ UNCHANGED <<engine, call_data, sentiment_result>>

\* _process_silver_layer(raw_records)
ProcessSilverLayer(r) ==
  /\ upsell_result[r].pc = "silver"
  /\ SilverDone(r, process_silver_layer(conversion_result,
                                        sentiment_result[r].raw_records))

Unprocessed_read(r, kind, rows) ==
  /\ upsell_result' =
       [upsell_result EXCEPT
          ![r] = [pc |-> IF rows = <<>> THEN "done" ELSE "analytics",
                  kind |-> kind]]
  /\ sentiment_result' = [sentiment_result EXCEPT ![r].unprocessed = rows]
  /\ UNCHANGED <<engine, call_data, conversion_result>>

\* _process_gold_layer up to its return for an empty list:
\* get_unprocessed_calls(limit=100).
ProcessGoldLayer(r) ==
  /\ upsell_result[r].pc = "gold"
  /\ \E rows \in get_unprocessed_calls(conversion_result, GOLD_LIMIT) :
       Unprocessed_read(r, "full", rows)
  /\ UNCHANGED enriched_data

\* run_incremental_update up to its else branch:
\* get_unprocessed_calls(limit=50).
RunIncrementalUpdate(r) ==
  /\ AtRest(r)
  /\ \E rows \in get_unprocessed_calls(conversion_result, INCREMENTAL_LIMIT) :
       Unprocessed_read(r, "incremental", rows)
  /\ enriched_data' = [enriched_data EXCEPT ![r] = NewStats]

\* The cleaned records of the files of the bucket: what a caller of
\* process_call_analytics can hold, in the database by now or not.
KnownRecords ==
  {clean_record(NewSilverLayer, Fetched(call_data[k])) :
     k \in {k \in DOMAIN call_data : call_data[k].body # NotJson}}
  \ {NoneObject}

\* gold.process_call_analytics(silver_records) called with a list of the
\* caller's.
CallProcessCallAnalytics(r) ==
  /\ AtRest(r)
  /\ \E record \in KnownRecords :
       /\ upsell_result' =
            [upsell_result EXCEPT
               ![r] = [pc |-> "analytics", kind |-> "direct"]]
       /\ sentiment_result' =
            [sentiment_result EXCEPT
               ![r] = [raw_records |-> <<>>, unprocessed |-> <<record>>]]
  /\ enriched_data' = [enriched_data EXCEPT ![r] = NewStats]
  /\ UNCHANGED <<engine, call_data, conversion_result>>

AnalyticsDone(r, done) ==
  IF done.status = "raised"
  THEN /\ enriched_data' = [enriched_data EXCEPT ![r].errors = @ + 1]
       /\ UNCHANGED conversion_result
  ELSE /\ conversion_result' = done.value.db
       /\ enriched_data' =
            [enriched_data EXCEPT
               ![r].gold_records_created = done.value.rowcount]

\* gold.process_call_analytics(unprocessed)
ProcessCallAnalytics(r) ==
  /\ upsell_result[r].pc = "analytics"
  /\ AnalyticsDone(r, process_call_analytics(conversion_result,
                                             sentiment_result[r].unprocessed))
  /\ upsell_result' = [upsell_result EXCEPT ![r].pc = "done"]
  /\ UNCHANGED <<engine, call_data, sentiment_result>>

PipelineNext ==
  \E r \in Runs :
    \/ ProcessBronzeLayer(r)
    \/ ProcessSilverLayer(r)
    \/ ProcessGoldLayer(r)
    \/ RunIncrementalUpdate(r)
    \/ CallProcessCallAnalytics(r)
    \/ ProcessCallAnalytics(r)

PipelineSpec == PipelineInit /\ [][PipelineNext]_vars

Positions == {"idle", "silver", "gold", "analytics", "done"}

\* A run that is under way takes its next step: the steps of PipelineNext
\* that move run r from a position other than "idle" and "done" are
\* ProcessSilverLayer(r), ProcessGoldLayer(r) and ProcessCallAnalytics(r),
\* and one of them is possible wherever the run is under way
\* (process_silver_layer and process_call_analytics return or raise for
\* every list, get_unprocessed_calls returns a list for every table).
RunAdvances(r) ==
  /\ ~AtRest(r)
  /\ \E pc \in Positions \ {upsell_result[r].pc} :
       upsell_result' = [upsell_result EXCEPT ![r].pc = pc]

\* Every run that is under way goes on to its end (the process executes the
\* statements of run_full_pipeline one after another), and run_full_pipeline
\* is started again and again.
PipelineFairness ==
  /\ \A r \in Runs : WF_upsell_result(RunAdvances(r))
  /\ SF_vars(\E r \in Runs : ProcessBronzeLayer(r))

FairPipelineSpec == PipelineSpec /\ PipelineFairness

(***************************************************************************)
(* The gold table under overlapping runs.                                  *)
(***************************************************************************)
Gold == conversion_result.gold_call_analytics

Silver == conversion_result.silver_call_records

\* No two rows of the table have the same call_id.
OneRowPerCall(rows) ==
  \A i, j \in DOMAIN rows : rows[i].call_id = rows[j].call_id => i = j

\* The step is one of run r, which holds no unprocessed record before it
\* and none after it.
StepWithNothingFound(r) ==
  /\ upsell_result'[r] # upsell_result[r]
  /\ sentiment_result[r].unprocessed = <<>>
  /\ sentiment_result'[r].unprocessed = <<>>

\* C26: whatever run_full_pipeline, run_incremental_update and
\* process_call_analytics invocations have taken place, overlapping ones
\* that read the same unprocessed silver records included,
\* gold_call_analytics holds at most one row per call_id and every gold
\* call_id is one of silver_call_records; and no step of a run that found
\* no unprocessed silver record changes the gold table.
GoldRowsConsistent ==
  /\ [](/\ OneRowPerCall(Gold)
        /\ CallIds(Gold) \subseteq CallIds(Silver))
  /\ [][\A r \in Runs : StepWithNothingFound(r) => Gold' = Gold]_vars

\* Two runs have read the same unprocessed silver record, one with
\* run_full_pipeline and one with run_incremental_update, and both have
\* finished process_call_analytics: one of them created the gold row.
OverlappingRunsFinished ==
  /\ upsell_result[1] = [pc |-> "done", kind |-> "full"]
  /\ upsell_result[2] = [pc |-> "done", kind |-> "incremental"]
  /\ sentiment_result[1].unprocessed # <<>>
  /\ sentiment_result[1].unprocessed = sentiment_result[2].unprocessed
  /\ enriched_data[1].gold_records_created
       + enriched_data[2].gold_records_created
       = Len(sentiment_result[1].unprocessed)
  /\ enriched_data[1].gold_records_created = 0
  /\ Len(Gold) = Len(sentiment_result[1].unprocessed)

(***************************************************************************)
(* Whether every call file gets through.                                   *)
(***************************************************************************)
\* The bucket has a file whose record has the call_id, passes
\* validate_record and is accepted by clean_record.
ValidFileFor(call_id) ==
  \E k \in DOMAIN call_data :
    /\ call_data[k].body # NotJson
    /\ EndsWith(call_data[k].key, DotJson)
    /\ validate_record(Fetched(call_data[k]))
    /\ clean_record(NewSilverLayer, Fetched(call_data[k])) # NoneObject
    /\ call_data[k].body.call_id = call_id

InSilver(call_id) == call_id \in CallIds(Silver)

InGold(call_id) == call_id \in CallIds(Gold)

\* C27: under repeated run_full_pipeline runs with a fixed batch_size,
\* every valid call file of the bucket eventually has a row in
\* silver_call_records, and then one in gold_call_analytics, however many
\* files the bucket holds.
EveryFileReachesGold ==
  \A call_id \in {GoodId, OtherId} :
    /\ ValidFileFor(call_id) ~> InSilver(call_id)
    /\ InSilver(call_id) ~> InGold(call_id)

\* What holds of the code: a silver row eventually has its gold row, and a
\* valid file among the first batch_size '.json' files of the bucket gets
\* its silver row.
ListedFileFor(call_id) ==
  \E k \in DOMAIN call_data :
    /\ ValidFileFor(call_id)
    /\ call_data[k].body # NotJson
    /\ call_data[k].body.call_id = call_id
    /\ \E j \in DOMAIN list_available_files(call_data, engine.batch_size) :
         list_available_files(call_data, engine.batch_size)[j] = call_data[k]

ListedFilesReachGold ==
  \A call_id \in {GoodId, OtherId} :
    /\ ListedFileFor(call_id) ~> InSilver(call_id)
    /\ InSilver(call_id) ~> InGold(call_id)

\* A valid file that is not among the first batch_size files has no silver
\* row, whatever runs have finished.
UnlistedFileNeverStored ==
  \A call_id \in {GoodId, OtherId} :
    (ValidFileFor(call_id) /\ ~ListedFileFor(call_id)) => ~InSilver(call_id)
====
